---------------------------- MODULE Spec2Model ----------------------------
(***************************************************************************)
(* Model of the document search system: the SQLite corpus store            *)
(* (database.py), the incremental indexer (indexer.py), the retrieval      *)
(* engine (search.py), the vector routines (embeddings.py) and the         *)
(* background sync tasks of the web layer (app.py).                        *)
(*                                                                         *)
(* Every database.py function opens its own connection and commits once,   *)
(* so each of them is one atomic step on the tables.  A sync run is a      *)
(* thread; its steps interleave with the steps of other runs, of queries   *)
(* and of the administrative routes.                                       *)
(***************************************************************************)
EXTENDS Integers, Sequences, FiniteSets, TLC

(***************************************************************************)
(* Bounds of the model.                                                    *)
(***************************************************************************)
NumPaths == 2       \* files of the documents folder
NumTexts == 2       \* distinct non-blank file contents
MaxIds == 3         \* uuid4 values that are drawn
MaxLimit == 2       \* largest result limit a query asks for
EMBEDDING_BATCH_SIZE == 2   \* texts per request of batch_generate_embeddings (config.py has 100)
MaxBatchTexts == 5  \* longest list given to batch_generate_embeddings

Paths == 1..NumPaths            \* absolute paths; numeric order is the lexicographic order
Texts == 1..NumTexts            \* non-blank contents
Ids == 1..MaxIds
Workers == {"t1", "t2"}         \* threads started by POST /admin/sync or calling process_document
ConceptNames == {"ai", "hype"}

Blank == 0                      \* a file whose text is empty after strip()
Bytes == {Blank} \cup Texts     \* what a file can hold

HybridCandidates == 100         \* db.fts_search(query, 100)

VARIABLES
  disk,             \* [Paths -> [exists, bytes]]: the documents folder
  documents,        \* rows of table documents
  embeddings,       \* rows of table embeddings, in rowid order
  documents_fts,    \* rows of the FTS5 table documents_fts
  concept_vectors,  \* rows of table concept_vectors
  sync_status,      \* rows of table sync_status (CHECK (id = 1))
  run,              \* [Workers -> the locals of a sync_folder / process_document call]
  qry,              \* the locals of the query being answered
  response,         \* what the step just taken returned to its caller (NoResponse inside a call)
  batch,            \* the locals of the batch_generate_embeddings call under way
  sync_tasks,       \* the dictionary sync_tasks of app.py: the task records, by task id
  prev              \* history: how the last undisturbed sync run over the present folder ended

vars == <<disk, documents, embeddings, documents_fts, concept_vectors,
          sync_status, run, qry, response, batch, sync_tasks, prev>>

store == <<documents, embeddings, documents_fts>>

(***************************************************************************)
(* Sequences                                                               *)
(***************************************************************************)
Min(a, b) == IF a <= b THEN a ELSE b

Range(s) == {s[k] : k \in DOMAIN s}

\* s[:n] for n >= 0
Take(s, n) == SubSeq(s, 1, Min(n, Len(s)))

RECURSIVE SelectRows(_, _)
\* the rows of s whose document_id is not in ids, order kept
SelectRows(s, ids) ==
  IF s = <<>> THEN <<>>
  ELSE IF Head(s).document_id \in ids THEN SelectRows(Tail(s), ids)
       ELSE <<Head(s)>> \o SelectRows(Tail(s), ids)

RECURSIVE InsertByScore(_, _)
\* x put behind every row whose score is >= its own
InsertByScore(s, x) ==
  IF s = <<>> THEN <<x>>
  ELSE IF Head(s).score >= x.score THEN <<Head(s)>> \o InsertByScore(Tail(s), x)
       ELSE <<x>> \o s

RECURSIVE InsertBeforeEqual(_, _)
\* x put before every row whose score is <= its own
InsertBeforeEqual(s, x) ==
  IF s = <<>> THEN <<x>>
  ELSE IF Head(s).score > x.score THEN <<Head(s)>> \o InsertBeforeEqual(Tail(s), x)
       ELSE <<x>> \o s

RECURSIVE SortByScoreDesc_TiesReversed(_)
\* a descending sort that reverses rows of equal score
SortByScoreDesc_TiesReversed(s) ==
  IF s = <<>> THEN <<>>
  ELSE InsertBeforeEqual(SortByScoreDesc_TiesReversed(SubSeq(s, 1, Len(s) - 1)), s[Len(s)])

RECURSIVE SortByScoreDesc(_)
\* list.sort(key=score, reverse=True): descending, equal scores keep their order
SortByScoreDesc(s) ==
  IF s = <<>> THEN <<>>
  ELSE InsertByScore(SortByScoreDesc(SubSeq(s, 1, Len(s) - 1)), s[Len(s)])

(***************************************************************************)
(* Text, hashing and the embedding provider                                *)
(***************************************************************************)
\* hashlib.md5 of the file's bytes: equal bytes give equal digests
compute_file_hash(bytes) == <<"md5", bytes>>

\* extract_text_txt: the file's text is what the file holds
extract_text(bytes) == bytes

\* not content.strip()
IsEmptyContent(content) == content = Blank

\* get_title: the first non-empty line of the content
get_title(content) == <<"title", content>>

\* Text t holds the words 1..t, so a longer text holds every word of a shorter one.
WordsOf(t) == 1..t

Queries == 1..(NumTexts + 1)    \* one-word queries; the last word is in no text

\* The vector the provider returns for a text: axis-aligned, of length t.
EmbeddingOf(t) ==
  CASE t % 4 = 1 -> <<t, 0>>
    [] t % 4 = 2 -> <<0, t>>
    [] t % 4 = 3 -> <<0 - t, 0>>
    [] OTHER     -> <<0, 0 - t>>

(***************************************************************************)
(* VectorMath (embeddings.py), exact on axis-aligned integer vectors; the   *)
(* components of any other vector are rounded down by the division         *)
(***************************************************************************)
Abs(x) == IF x < 0 THEN 0 - x ELSE x

Dot(a, b) == a[1] * b[1] + a[2] * b[2]

\* np.linalg.norm: the integer root of the squared length
Norm(v) == CHOOSE r \in 0..(Abs(v[1]) + Abs(v[2])) :
              r * r <= Dot(v, v) /\ Dot(v, v) < (r + 1) * (r + 1)

\* normalize giving an axis vector for a vector of no length
normalize_ZeroToAxis(v) ==
  IF Norm(v) = 0 THEN <<1, 0>> ELSE <<v[1] \div Norm(v), v[2] \div Norm(v)>>

normalize(v) == IF Norm(v) = 0 THEN v ELSE <<v[1] \div Norm(v), v[2] \div Norm(v)>>

cosine_similarity(a, b) == Dot(normalize(a), normalize(b))

RECURSIVE WeightedSum(_, _)
\* result += weight * vec, over the names of `names`
WeightedSum(vectors, names) ==
  IF names = {} THEN <<0, 0>>
  ELSE LET n == CHOOSE x \in names : TRUE
           rest == WeightedSum(vectors, names \ {n})
       IN <<vectors[n].weight * vectors[n].vec[1] + rest[1],
            vectors[n].weight * vectors[n].vec[2] + rest[2]>>

\* the vectors added up without their weights
mix_vectors_IgnoresWeights(vectors) ==
  normalize(WeightedSum([n \in DOMAIN vectors |-> [vec |-> vectors[n].vec, weight |-> 1]],
                        DOMAIN vectors))

\* mix_vectors: vectors maps a name to its (vector, weight)
mix_vectors(vectors) == normalize(WeightedSum(vectors, DOMAIN vectors))

debias_vector(main, bias) ==
  LET bn == normalize(bias)
      k  == Dot(main, bn)
  IN normalize(<<main[1] - k * bn[1], main[2] - k * bn[2]>>)


(***************************************************************************)
(* Corpus store (database.py)                                              *)
(***************************************************************************)
DocIds(docs) == {d.id : d \in docs}

EmbIds(embs) == {e.document_id : e \in Range(embs)}

FtsIds(fts) == {f.document_id : f \in fts}

DocRow(doc_id, filepath, content, file_hash) ==
  [id |-> doc_id, filepath |-> filepath, title |-> get_title(content),
   content |-> content, file_hash |-> file_hash]

\* get_document_by_path: the rows (none or one) stored for the path
get_document_by_path(docs, filepath) == {d \in docs : d.filepath = filepath}

\* get_document: the rows (none or one) stored under the id
get_document(docs, doc_id) == {d \in docs : d.id = doc_id}

\* The rows INSERT OR REPLACE deletes: those holding the new row's PRIMARY KEY
\* or its UNIQUE filepath.
ReplacedRows(docs, row) == {d \in docs : d.id = row.id \/ d.filepath = row.filepath}

\* insert_document, table documents
DocumentsAfterInsert(docs, row) == (docs \ ReplacedRows(docs, row)) \cup {row}

\* insert_document with the foreign keys not enforced: the embedding of a
\* replaced row stays
EmbeddingsAfterInsertDocument_NoCascade(docs, embs, row) == embs

\* insert_document, table embeddings: a replaced documents row takes its
\* embedding with it (FOREIGN KEY ... ON DELETE CASCADE, foreign_keys = ON)
EmbeddingsAfterInsertDocument(docs, embs, row) ==
  SelectRows(embs, DocIds(ReplacedRows(docs, row)))

\* insert_document, table documents_fts: DELETE WHERE document_id = ?, INSERT
FtsAfterInsert(fts, row) ==
  {f \in fts : f.document_id # row.id}
     \cup {[document_id |-> row.id, title |-> row.title, content |-> row.content]}

\* insert_embedding raises IntegrityError when the document row is gone
ForeignKeyHolds(docs, doc_id) == doc_id \in DocIds(docs)

\* insert_embedding: INSERT OR REPLACE on UNIQUE document_id; the new row gets
\* the largest rowid (AUTOINCREMENT)
EmbeddingsAfterInsert(embs, doc_id, embedding) ==
  Append(SelectRows(embs, {doc_id}), [document_id |-> doc_id, embedding |-> embedding])

\* delete_document, the three DELETE statements
DocumentsAfterDelete(docs, doc_id) == {d \in docs : d.id # doc_id}

EmbeddingsAfterDelete(embs, doc_id) == SelectRows(embs, {doc_id})

FtsAfterDelete(fts, doc_id) == {f \in fts : f.document_id # doc_id}

\* get_embedding: the stored vectors (none or one) of the document
get_embedding(embs, doc_id) == {e.embedding : e \in {x \in Range(embs) : x.document_id = doc_id}}

\* get_concept: the stored vectors (none or one) of the name
get_concept(concepts, name) == {c.embedding : c \in {x \in concepts : x.name = name}}

\* an INSERT OR IGNORE: the record stored first stays
ConceptsAfterInsert_KeepsOld(concepts, name, embedding, source_text) ==
  IF \E c \in concepts : c.name = name THEN concepts
  ELSE concepts \cup {[name |-> name, embedding |-> embedding, source_text |-> source_text]}

\* insert_concept: INSERT OR REPLACE on PRIMARY KEY name
ConceptsAfterInsert(concepts, name, embedding, source_text) ==
  {c \in concepts : c.name # name}
     \cup {[name |-> name, embedding |-> embedding, source_text |-> source_text]}

\* a DELETE without its WHERE
ConceptsAfterDelete_All(concepts, name) == {}

\* delete_concept
ConceptsAfterDelete(concepts, name) == {c \in concepts : c.name # name}

\* an INSERT OR IGNORE: the row of the first run stays
SyncStatusAfterUpdate_KeepsFirst(status, files_processed) ==
  IF status # {} THEN status ELSE {[id |-> 1, files_processed |-> files_processed]}

\* update_sync_status: INSERT OR REPLACE of the row with id = 1
SyncStatusAfterUpdate(status, files_processed) ==
  {r \in status : r.id # 1} \cup {[id |-> 1, files_processed |-> files_processed]}

(***************************************************************************)
(* Indexer (indexer.py)                                                    *)
(***************************************************************************)
NoRow == {}
NoVector == <<0, 0>>

IdleRun ==
  [pc |-> "idle", kind |-> "sync", force |-> FALSE, docs |-> <<>>,
   processed |-> 0, added |-> 0, updated |-> 0, unchanged |-> 0, errors |-> <<>>,
   file_hash |-> <<>>, existing |-> NoRow, doc_id |-> 0, embedding |-> NoVector,
   \* history of the call, not read by the program: the provider calls it made,
   \* what it started after ("disturbed" once somebody else wrote), and the
   \* arguments of every progress_callback invocation
   calls |-> 0, after |-> "none", progress |-> <<>>,
   \* the task whose thread the call belongs to (run_sync of app.py), 0 for none
   task |-> 0]

RECURSIVE SortedPaths(_, _)
\* sorted(documents): the paths of S from p upwards, ascending
SortedPaths(S, p) ==
  IF p > NumPaths THEN <<>>
  ELSE (IF p \in S THEN <<p>> ELSE <<>>) \o SortedPaths(S, p + 1)

RECURSIVE SortedPaths_Reversed(_, _)
\* the paths of S from p upwards, descending
SortedPaths_Reversed(S, p) ==
  IF p > NumPaths THEN <<>>
  ELSE SortedPaths_Reversed(S, p + 1) \o (IF p \in S THEN <<p>> ELSE <<>>)

\* find_documents without its sorted(): the files as the directory walk gives them
find_documents_Unsorted(d) == SortedPaths_Reversed({p \in Paths : d[p].exists}, 1)

\* find_documents: every supported file below the folder, sorted
find_documents(d) == SortedPaths({p \in Paths : d[p].exists}, 1)

\* The ids some table, thread or running query still holds; uuid4 draws none of them.
UsedIds ==
  DocIds(documents) \cup EmbIds(embeddings) \cup FtsIds(documents_fts)
    \cup {run[w].doc_id : w \in Workers}
    \cup UNION {{x.id : x \in run[w].existing} : w \in Workers}
    \cup qry.ids

HasFreshId == Ids \ UsedIds # {}

\* str(uuid.uuid4()): the least id nobody holds
FreshId ==
  LET free == (Ids \ UsedIds) \cup {MaxIds + 1}
  IN CHOOSE i \in free : \A j \in free : i <= j

\* a new id drawn for every write
ChooseDocId_AlwaysNew(existing) == FreshId

\* doc_id = existing["id"] if existing else str(uuid.uuid4())
ChooseDocId(existing) ==
  IF existing # {} THEN (CHOOSE d \in existing : TRUE).id ELSE FreshId

InFlight(w) == run[w].pc # "idle"

Quiescent == (\A w \in Workers : ~InFlight(w)) /\ qry.pc = "idle"

\* The file a call is working on: documents[i] of the loop in sync_folder
CurrentFile(r) == r.docs[r.processed + 1]

\* the loop of sync_folder with the progress callback left out after an error
Counted_NoProgressOnError(r, status) ==
  [r EXCEPT
     !.processed = r.processed + 1,
     !.added = IF status = "added" THEN r.added + 1 ELSE r.added,
     !.updated = IF status = "updated" THEN r.updated + 1 ELSE r.updated,
     !.unchanged = IF status = "unchanged" THEN r.unchanged + 1 ELSE r.unchanged,
     !.errors = IF status = "error" THEN Append(r.errors, CurrentFile(r)) ELSE r.errors,
     !.progress = IF status = "error" THEN r.progress
                  ELSE Append(r.progress, <<r.processed + 1, Len(r.docs), CurrentFile(r)>>),
     !.file_hash = <<>>, !.existing = NoRow, !.doc_id = 0, !.embedding = NoVector]

\* The summary after the loop of sync_folder has counted a result, lines 157-169
Counted(r, status) ==
  [r EXCEPT
     !.processed = r.processed + 1,
     !.progress = Append(r.progress, <<r.processed + 1, Len(r.docs), CurrentFile(r)>>),
     !.added = IF status = "added" THEN r.added + 1 ELSE r.added,
     !.updated = IF status = "updated" THEN r.updated + 1 ELSE r.updated,
     !.unchanged = IF status = "unchanged" THEN r.unchanged + 1 ELSE r.unchanged,
     !.errors = IF status = "error" THEN Append(r.errors, CurrentFile(r)) ELSE r.errors,
     !.file_hash = <<>>, !.existing = NoRow, !.doc_id = 0, !.embedding = NoVector]

\* the loop of sync_folder left at the first file that ends in error
Account_StopsOnError(r, status) ==
  IF r.kind = "single" THEN IdleRun
  ELSE [Counted(r, status) EXCEPT
          !.pc = IF r.processed + 1 < Len(r.docs) /\ status # "error"
                 THEN "lookup" ELSE "status"]

\* process_document has returned `status`: sync_folder counts it and goes to
\* the next file or leaves its loop; a direct call is over.
Account(r, status) ==
  IF r.kind = "single" THEN IdleRun
  ELSE [Counted(r, status) EXCEPT
          !.pc = IF r.processed + 1 < Len(r.docs) THEN "lookup" ELSE "status"]

\* What the step returns to a caller outside: the result of a direct call
Returned(r, status) ==
  IF r.kind = "single"
  THEN [op |-> "process_document", status |-> status, filepath |-> CurrentFile(r),
        force |-> r.force, calls |-> r.calls]
  ELSE [op |-> "none"]

\* the comparison with `not force` written as `force`
IsUnchanged_ForceInverted(existing, file_hash, force) ==
  /\ existing # NoRow
  /\ \A d \in existing : d.file_hash = file_hash
  /\ force

\* the comparison without the hash
IsUnchanged_IgnoresHash(existing, file_hash, force) ==
  /\ existing # NoRow
  /\ ~force

\* if existing and existing["file_hash"] == file_hash and not force
IsUnchanged(existing, file_hash, force) ==
  /\ existing # NoRow
  /\ \A d \in existing : d.file_hash = file_hash
  /\ ~force

\* The columns of `existing` the call reads after the comparison
Kept(existing) == {[id |-> d.id] : d \in existing}

\* Somebody changed the folder or the tables: every call under way but `self`
\* is no longer a run over an unchanged folder.
Disturb(self) ==
  [w \in Workers |-> IF w # self /\ InFlight(w)
                     THEN [run[w] EXCEPT !.after = "disturbed"] ELSE run[w]]

TypeOK ==
  /\ disk \in [Paths -> [exists : BOOLEAN, bytes : Bytes]]
  /\ \A d \in documents : d.id \in Ids /\ d.filepath \in Paths
  /\ \A w \in Workers : run[w].pc \in {"idle", "starting", "lookup", "extract", "insemb", "status"}
  /\ prev \in {"none", "clean", "errors"}

NoQuery == [pc |-> "idle", mode |-> "none", query |-> 0, limit |-> 0,
            keyword_results |-> <<>>, reranked |-> <<>>, top_results |-> <<>>,
            total_candidates |-> 0, ids |-> {}, calls |-> 0, sims |-> 0,
            \* history of the query, not read by the program: the documents
            \* whose full-text entry held the word when the entries were read,
            \* and the candidates that had an embedding when those were read
            matching |-> {}, embedded |-> {},
            \* and what a scan of the embedding set did: the times the set was
            \* read, the similarities in the order it was iterated, the vector
            \* they were taken with, the concept names that had a vector
            hist |-> [scans |-> 0, scanned |-> <<>>, vector |-> <<0, 0>>, resolved |-> {}]]

NoResponse == [op |-> "none"]

NoBatch == [pc |-> "idle", texts |-> <<>>, callback |-> FALSE, i |-> 0, embeddings |-> <<>>,
            \* history of the call, not read by the program: every request sent
            \* to the provider with its outcome, the cooldowns slept, and the
            \* arguments of every progress_callback invocation
            log |-> <<>>, sleeps |-> 0, progress |-> <<>>]

Init ==
  /\ disk = [p \in Paths |-> [exists |-> FALSE, bytes |-> Blank]]
  /\ documents = {}
  /\ embeddings = <<>>
  /\ documents_fts = {}
  /\ concept_vectors = {}
  /\ sync_status = {}
  /\ run = [w \in Workers |-> IdleRun]
  /\ qry = NoQuery
  /\ response = NoResponse
  /\ batch = NoBatch
  /\ sync_tasks = <<>>
  /\ prev = "none"

(* The folder changes under the program: a file is written or removed. *)
WriteFile(p, b) ==
  /\ ~(disk[p].exists /\ disk[p].bytes = b)
  /\ disk' = [disk EXCEPT ![p] = [exists |-> TRUE, bytes |-> b]]
  /\ run' = Disturb("none")
  /\ prev' = "none"
  /\ response' = NoResponse
  /\ UNCHANGED <<batch, sync_tasks, documents, embeddings, documents_fts, concept_vectors, sync_status, qry>>

RemoveFile(p) ==
  /\ disk[p].exists
  /\ disk' = [disk EXCEPT ![p] = [exists |-> FALSE, bytes |-> Blank]]
  /\ run' = Disturb("none")
  /\ prev' = "none"
  /\ response' = NoResponse
  /\ UNCHANGED <<batch, sync_tasks, documents, embeddings, documents_fts, concept_vectors, sync_status, qry>>

(* sync_folder up to its loop: documents = find_documents(folder) and the summary *)
StartSync(w) ==
  /\ ~InFlight(w)
  /\ LET docs == find_documents(disk)
     IN run' = [run EXCEPT ![w] =
                  [IdleRun EXCEPT !.pc = IF docs = <<>> THEN "status" ELSE "lookup",
                                  !.docs = docs, !.after = prev]]
  /\ response' = NoResponse
  /\ UNCHANGED <<batch, sync_tasks, disk, documents, embeddings, documents_fts, concept_vectors,
                 sync_status, qry, prev>>

(* A direct call process_document(filepath, force) *)
StartProcess(w, p, force) ==
  /\ ~InFlight(w)
  /\ run' = [run EXCEPT ![w] =
               [IdleRun EXCEPT !.pc = "lookup", !.kind = "single", !.force = force,
                               !.docs = <<p>>]]
  /\ response' = NoResponse
  /\ UNCHANGED <<batch, sync_tasks, disk, documents, embeddings, documents_fts, concept_vectors,
                 sync_status, qry, prev>>

\* run_sync's progress(current, total, filepath), called by sync_folder after
\* the file at hand: the task of the run (if it has one) is told
Progressed(tasks, r) ==
  IF r.task = 0 THEN tasks
  ELSE [tasks EXCEPT ![r.task] =
          [@ EXCEPT !.processed = r.processed + 1, !.current_file = CurrentFile(r)]]

\* run_sync after sync_folder has returned its result, app.py lines 117-121
Completed(tasks, r) ==
  IF r.task = 0 THEN tasks
  ELSE [tasks EXCEPT ![r.task] =
          [@ EXCEPT !.status = "completed", !.added = r.added, !.updated = r.updated,
                    !.unchanged = r.unchanged, !.errors = r.errors]]

\* What process_document decides at line 86, or "error" when open() raises
Decision(r, d, docs) ==
  LET p == CurrentFile(r)
  IN IF ~d[p].exists THEN "error"
     ELSE IF IsUnchanged(get_document_by_path(docs, p),
                         compute_file_hash(d[p].bytes), r.force)
          THEN "unchanged" ELSE "process"

(* process_document, lines 81-87: hash the file, look the path up, decide *)
Lookup(w) ==
  /\ run[w].pc = "lookup"
  /\ LET r == run[w]
         p == CurrentFile(r)
         decision == Decision(r, disk, documents)
     IN IF decision = "process"
        THEN /\ run' = [run EXCEPT ![w] =
                          [r EXCEPT !.pc = "extract",
                                    !.file_hash = compute_file_hash(disk[p].bytes),
                                    !.existing = Kept(get_document_by_path(documents, p))]]
             /\ response' = NoResponse
             /\ sync_tasks' = sync_tasks
        ELSE /\ run' = [run EXCEPT ![w] = Account(r, decision)]
             /\ response' = Returned(r, decision)
             /\ sync_tasks' = Progressed(sync_tasks, r)
  /\ UNCHANGED <<batch, disk, documents, embeddings, documents_fts, concept_vectors,
                 sync_status, qry, prev>>

(* process_document, lines 90-92: the file is gone, or holds no text *)
ExtractFails(w) ==
  /\ run[w].pc = "extract"
  /\ LET r == run[w]
         p == CurrentFile(r)
     IN /\ ~disk[p].exists \/ IsEmptyContent(extract_text(disk[p].bytes))
        /\ run' = [run EXCEPT ![w] = Account(r, "error")]
        /\ response' = Returned(r, "error")
        /\ sync_tasks' = Progressed(sync_tasks, r)
  /\ UNCHANGED <<batch, disk, documents, embeddings, documents_fts, concept_vectors,
                 sync_status, qry, prev>>

\* process_document writing the document before it asks for the embedding
EmbedFails_AfterInsert(w) ==
  /\ run[w].pc = "extract"
  /\ LET r == [run[w] EXCEPT !.calls = run[w].calls + 1]
         p == CurrentFile(r)
         content == extract_text(disk[p].bytes)
     IN /\ disk[p].exists /\ ~IsEmptyContent(content)
        /\ r.existing # NoRow \/ HasFreshId
        /\ LET row == DocRow(ChooseDocId(r.existing), p, content, r.file_hash)
           IN /\ documents' = DocumentsAfterInsert(documents, row)
              /\ embeddings' = EmbeddingsAfterInsertDocument(documents, embeddings, row)
              /\ documents_fts' = FtsAfterInsert(documents_fts, row)
        /\ run' = [run EXCEPT ![w] = Account(r, "error")]
        /\ response' = Returned(r, "error")
        /\ sync_tasks' = Progressed(sync_tasks, r)
  /\ UNCHANGED <<batch, disk, concept_vectors, sync_status, qry, prev>>

(* process_document, lines 90-98: text extracted, generate_embedding raises *)
EmbedFails(w) ==
  /\ run[w].pc = "extract"
  /\ LET r == [run[w] EXCEPT !.calls = run[w].calls + 1]
         p == CurrentFile(r)
     IN /\ disk[p].exists /\ ~IsEmptyContent(extract_text(disk[p].bytes))
        /\ run' = [run EXCEPT ![w] = Account(r, "error")]
        /\ response' = Returned(r, "error")
        /\ sync_tasks' = Progressed(sync_tasks, r)
  /\ UNCHANGED <<batch, disk, documents, embeddings, documents_fts, concept_vectors,
                 sync_status, qry, prev>>

(* process_document, lines 90-108: text extracted and embedded, the id reused
   or drawn, db.insert_document committed *)
InsertDocument(w) ==
  /\ run[w].pc = "extract"
  /\ LET r == run[w]
         p == CurrentFile(r)
         content == extract_text(disk[p].bytes)
     IN /\ disk[p].exists /\ ~IsEmptyContent(content)
        /\ r.existing # NoRow \/ HasFreshId
        /\ LET doc_id == ChooseDocId(r.existing)
               row == DocRow(doc_id, p, content, r.file_hash)
           IN /\ documents' = DocumentsAfterInsert(documents, row)
              /\ embeddings' = EmbeddingsAfterInsertDocument(documents, embeddings, row)
              /\ documents_fts' = FtsAfterInsert(documents_fts, row)
              /\ run' = [Disturb(w) EXCEPT ![w] =
                           [r EXCEPT !.pc = "insemb", !.doc_id = doc_id,
                                     !.embedding = EmbeddingOf(content),
                                     !.calls = r.calls + 1]]
  /\ prev' = "none"
  /\ response' = NoResponse
  /\ UNCHANGED <<batch, sync_tasks, disk, concept_vectors, sync_status, qry>>

\* the two outcomes exchanged
StatusOf_Exchanged(existing) == IF existing # NoRow THEN "added" ELSE "updated"

\* status = "updated" if existing else "added"
StatusOf(existing) == IF existing # NoRow THEN "updated" ELSE "added"

(* process_document, lines 109-112: db.insert_embedding, then the status *)
InsertEmbedding(w) ==
  /\ run[w].pc = "insemb"
  /\ LET r == run[w]
         status == IF ~ForeignKeyHolds(documents, r.doc_id) THEN "error"
                   ELSE StatusOf(r.existing)
     IN /\ embeddings' = IF status = "error" THEN embeddings
                         ELSE EmbeddingsAfterInsert(embeddings, r.doc_id, r.embedding)
        /\ run' = [(IF status = "error" THEN run ELSE Disturb(w)) EXCEPT ![w] =
                      Account(r, status)]
        /\ response' = Returned(r, status)
        /\ sync_tasks' = Progressed(sync_tasks, r)
  /\ UNCHANGED <<batch, disk, documents, documents_fts, concept_vectors, sync_status, qry, prev>>

\* The summary sync_folder returns
Summary(r) ==
  [op |-> "sync_folder", total |-> Len(r.docs), added |-> r.added,
   updated |-> r.updated, unchanged |-> r.unchanged, errors |-> r.errors,
   processed |-> r.processed, docs |-> r.docs, calls |-> r.calls, after |-> r.after,
   progress |-> r.progress]

(* sync_folder, lines 171-174: db.update_sync_status and the return *)
FinishSync(w) ==
  /\ run[w].pc = "status"
  /\ sync_status' = SyncStatusAfterUpdate(sync_status, run[w].processed)
  /\ run' = [run EXCEPT ![w] = IdleRun]
  /\ response' = Summary(run[w])
  /\ prev' = IF run[w].after = "disturbed" \/ \E v \in Workers : v # w /\ InFlight(v)
             THEN prev
             ELSE IF run[w].errors = <<>> THEN "clean" ELSE "errors"
  /\ sync_tasks' = Completed(sync_tasks, run[w])
  /\ UNCHANGED <<batch, disk, documents, embeddings, documents_fts, concept_vectors, qry>>

(***************************************************************************)
(* Administrative routes (app.py) and deletion reconciliation              *)
(***************************************************************************)
\* The rows remove_deleted_documents deletes: os.path.exists(doc["filepath"]) is false
GoneRows(docs, d) == {x \in docs : ~d[x.filepath].exists}

\* delete_document without its DELETE FROM embeddings
delete_document_KeepsEmbedding(st, doc_id) ==
  <<DocumentsAfterDelete(st[1], doc_id), st[2], FtsAfterDelete(st[3], doc_id)>>

\* delete_document without its DELETE FROM documents_fts
delete_document_KeepsFts(st, doc_id) ==
  <<DocumentsAfterDelete(st[1], doc_id), EmbeddingsAfterDelete(st[2], doc_id), st[3]>>

\* delete_document on the three tables <<documents, embeddings, documents_fts>>
delete_document(st, doc_id) ==
  <<DocumentsAfterDelete(st[1], doc_id), EmbeddingsAfterDelete(st[2], doc_id),
    FtsAfterDelete(st[3], doc_id)>>

RECURSIVE DeleteEach(_, _)
\* the loop of remove_deleted_documents over the rows whose file is gone
DeleteEach(st, ids) ==
  IF ids = {} THEN st
  ELSE LET doc_id == CHOOSE i \in ids : TRUE
       IN DeleteEach(delete_document(st, doc_id), ids \ {doc_id})

(* DELETE /admin/documents/<doc_id>: db.delete_document(doc_id) *)
DeleteDocument(doc_id) ==
  /\ doc_id \in DocIds(documents) \cup EmbIds(embeddings) \cup FtsIds(documents_fts)
  /\ documents' = delete_document(store, doc_id)[1]
  /\ embeddings' = delete_document(store, doc_id)[2]
  /\ documents_fts' = delete_document(store, doc_id)[3]
  /\ response' = [op |-> "delete_document", deleted |-> doc_id]
  /\ run' = Disturb("none")
  /\ prev' = "none"
  /\ UNCHANGED <<batch, sync_tasks, disk, concept_vectors, sync_status, qry>>

(* remove_deleted_documents: delete_document for every stored row whose file is gone *)
RemoveDeleted ==
  LET gone == DocIds(GoneRows(documents, disk))
      st == DeleteEach(store, gone)
  IN /\ documents' = st[1]
     /\ embeddings' = st[2]
     /\ documents_fts' = st[3]
     /\ response' = [op |-> "remove_deleted_documents", removed |-> Cardinality(gone)]
     /\ run' = IF gone = {} THEN run ELSE Disturb("none")
     /\ prev' = IF gone = {} THEN prev ELSE "none"
     /\ UNCHANGED <<batch, sync_tasks, disk, concept_vectors, sync_status, qry>>

(* store_concept: generate_embedding, db.insert_concept; when the provider
   raises, nothing is written *)
StoreConcept(name, text) ==
  /\ \E ok \in BOOLEAN :
       /\ concept_vectors' = IF ok THEN ConceptsAfterInsert(concept_vectors, name,
                                                             EmbeddingOf(text), text)
                             ELSE concept_vectors
       /\ response' = [op |-> "store_concept", name |-> name, source_text |-> text,
                       raised |-> ~ok,
                       \* history: the texts stored under the name before the call
                       before |-> {c.source_text : c \in {x \in concept_vectors : x.name = name}}]
  /\ UNCHANGED <<batch, sync_tasks, disk, documents, embeddings, documents_fts, sync_status, run, qry, prev>>

(* DELETE /admin/concepts/<name>: db.delete_concept(name) *)
DeleteConcept(name) ==
  /\ name \in {c.name : c \in concept_vectors}
  /\ concept_vectors' = ConceptsAfterDelete(concept_vectors, name)
  /\ response' = [op |-> "delete_concept", deleted |-> name]
  /\ UNCHANGED <<batch, sync_tasks, disk, documents, embeddings, documents_fts, sync_status, run, qry, prev>>

(***************************************************************************)
(* Retrieval engine (search.py)                                            *)
(***************************************************************************)
\* documents_fts MATCH ?: the rows whose title or content holds the word
Matches(fts, q) == {f \in fts : q \in WordsOf(f.content)}

\* -bm25(documents_fts): a positive score, here the higher the more words the
\* matching text holds
Bm25(q, f) == 10 * f.content

\* The orders ORDER BY score can return a set of rows in: best first, rows of
\* equal score in any order.
RankedSeqs(S) ==
  {s \in [1..Cardinality(S) -> S] :
     /\ \A i, j \in DOMAIN s : i # j => s[i] # s[j]
     /\ \A i, j \in DOMAIN s : i < j => s[i].score >= s[j].score}

\* db.fts_search(query, limit): every result the query can give
fts_search(fts, q, limit) ==
  {Take(s, limit) :
     s \in RankedSeqs({[document_id |-> f.document_id, score |-> Bm25(q, f)] :
                          f \in Matches(fts, q)})}

\* 100 * (0.3 * (bm25_score / 10) + 0.7 * sem_score)
Combined(bm25_score, sem_score) == 3 * bm25_score + 70 * sem_score

RECURSIVE RerankRows(_, _, _)
\* hybrid_search, lines 122-129: the candidates that have an embedding, scored
RerankRows(keyword_results, embs, query_embedding) ==
  IF keyword_results = <<>> THEN <<>>
  ELSE LET c == Head(keyword_results)
           e == get_embedding(embs, c.document_id)
           rest == RerankRows(Tail(keyword_results), embs, query_embedding)
       IN IF e = {} THEN rest
          ELSE LET sem == cosine_similarity(query_embedding, CHOOSE v \in e : TRUE)
               IN <<[document_id |-> c.document_id, score |-> Combined(c.score, sem),
                     bm25 |-> c.score, sem |-> sem]>> \o rest

\* the ranking without its truncation
TopResults_NotTruncated(rows, limit) == SortByScoreDesc(rows)

\* lines 131-132: reranked.sort(key=combined, reverse=True); reranked[:limit]
TopResults(rows, limit) == Take(SortByScoreDesc(rows), limit)

\* lines 280-283: the similarity of every stored embedding, in the order
\* get_all_embeddings returns them
ScoreRows(embs, vector) ==
  [k \in DOMAIN embs |->
     [document_id |-> embs[k].document_id,
      score |-> cosine_similarity(vector, embs[k].embedding)]]

RECURSIVE FetchRows_KeepsDeleted(_, _)
\* the loop without its `if doc`: an entry for every ranked id
FetchRows_KeepsDeleted(top_results, docs) ==
  IF top_results = <<>> THEN <<>>
  ELSE LET t == Head(top_results)
           doc == get_document(docs, t.document_id)
       IN <<[id |-> t.document_id,
             filepath |-> IF doc = {} THEN 0 ELSE (CHOOSE d \in doc : TRUE).filepath,
             score |-> t.score]>> \o FetchRows_KeepsDeleted(Tail(top_results), docs)

RECURSIVE FetchRows(_, _)
\* "Fetch document details": the rows still stored, in ranking order
FetchRows(top_results, docs) ==
  IF top_results = <<>> THEN <<>>
  ELSE LET t == Head(top_results)
           doc == get_document(docs, t.document_id)
           rest == FetchRows(Tail(top_results), docs)
       IN IF doc = {} THEN rest
          ELSE <<[id |-> t.document_id, filepath |-> (CHOOSE d \in doc : TRUE).filepath,
                  score |-> t.score]>> \o rest

SeqIds(rows) == {r.document_id : r \in Range(rows)}

Reply(mode, query, limit, results, total_candidates, error, calls, sims, candidates, embedded) ==
  [op |-> mode, raised |-> FALSE, query |-> query, limit |-> limit,
   results |-> results, total_candidates |-> total_candidates,
   returned |-> Len(results), error |-> error,
   \* history of the call, not part of the reply
   calls |-> calls, sims |-> sims, candidates |-> candidates, embedded |-> embedded,
   hist |-> qry.hist]

\* generate_embedding raised and nothing caught it
Raised(mode, query, calls) == [op |-> mode, raised |-> TRUE, query |-> query, calls |-> calls]

\* A scan of the embedding set with `vector`, as the history keeps it
Scan(vector, scores, resolved) ==
  [scans |-> 1, scanned |-> scores, vector |-> vector, resolved |-> resolved]

\* The documents whose full-text entry holds the word
MatchingIds(q) == {f.document_id : f \in {x \in documents_fts : q \in WordsOf(x.content)}}

\* hybrid_search with the query embedded before the candidates are looked at
HybridNoCandidates_EmbedsFirst(q, limit) ==
  /\ qry.pc = "idle"
  /\ <<>> \in fts_search(documents_fts, q, HybridCandidates)
  /\ response' = Reply("hybrid", q, limit, <<>>, 0, "", 1, 0, MatchingIds(q), {})
  /\ UNCHANGED <<batch, sync_tasks, disk, documents, embeddings, documents_fts, concept_vectors,
                 sync_status, run, qry, prev>>

(* hybrid_search, lines 101-115: no keyword candidate *)
HybridNoCandidates(q, limit) ==
  /\ qry.pc = "idle"
  /\ <<>> \in fts_search(documents_fts, q, HybridCandidates)
  /\ response' = Reply("hybrid", q, limit, <<>>, 0, "", 0, 0, MatchingIds(q), {})
  /\ UNCHANGED <<batch, sync_tasks, disk, documents, embeddings, documents_fts, concept_vectors,
                 sync_status, run, qry, prev>>

(* hybrid_search, lines 101-119: candidates found, the query is embedded *)
HybridStart(q, limit) ==
  /\ qry.pc = "idle"
  /\ \E keyword_results \in fts_search(documents_fts, q, HybridCandidates) :
       /\ keyword_results # <<>>
       /\ \E ok \in BOOLEAN :
            IF ok
            THEN /\ qry' = [NoQuery EXCEPT !.pc = "rerank", !.mode = "hybrid",
                                           !.query = q, !.limit = limit,
                                           !.keyword_results = keyword_results,
                                           !.total_candidates = Len(keyword_results),
                                           !.ids = SeqIds(keyword_results),
                                           !.calls = 1,
                                           !.matching = MatchingIds(q)]
                 /\ response' = NoResponse
            ELSE /\ qry' = NoQuery
                 /\ response' = Raised("hybrid", q, 1)
  /\ UNCHANGED <<batch, sync_tasks, disk, documents, embeddings, documents_fts, concept_vectors,
                 sync_status, run, prev>>

(* hybrid_search, lines 121-132: rerank, sort, truncate *)
HybridRerank ==
  /\ qry.pc = "rerank"
  /\ LET reranked == RerankRows(qry.keyword_results, embeddings, EmbeddingOf(qry.query))
     IN qry' = [qry EXCEPT !.pc = "fetch", !.reranked = reranked,
                           !.top_results = TopResults(reranked, qry.limit),
                           !.sims = Len(reranked),
                           !.embedded = qry.ids \cap EmbIds(embeddings)]
  /\ response' = NoResponse
  /\ UNCHANGED <<batch, sync_tasks, disk, documents, embeddings, documents_fts, concept_vectors,
                 sync_status, run, prev>>

\* lines 266-272: the diagnostic returned when main_vec or remove_vec is None
NotFoundDiagnostic(main_vec, remove_vec) == "One or both concepts not found"

(* debias_search, lines 262-272: a concept is missing *)
DebiasNotFound(main_concept, remove_concept, limit) ==
  /\ qry.pc = "idle"
  /\ \/ get_concept(concept_vectors, main_concept) = {}
     \/ get_concept(concept_vectors, remove_concept) = {}
  /\ response' = Reply("debias", <<main_concept, remove_concept>>, limit, <<>>, 0,
                       NotFoundDiagnostic(get_concept(concept_vectors, main_concept),
                                          get_concept(concept_vectors, remove_concept)),
                       0, 0, {}, {})
  /\ UNCHANGED <<batch, sync_tasks, disk, documents, embeddings, documents_fts, concept_vectors,
                 sync_status, run, qry, prev>>

(* debias_search, lines 262-286: both concepts stored; debias, scan, sort, truncate *)
DebiasStart(main_concept, remove_concept, limit) ==
  /\ qry.pc = "idle"
  /\ get_concept(concept_vectors, main_concept) # {}
  /\ get_concept(concept_vectors, remove_concept) # {}
  /\ LET main_vec == CHOOSE v \in get_concept(concept_vectors, main_concept) : TRUE
         remove_vec == CHOOSE v \in get_concept(concept_vectors, remove_concept) : TRUE
         scores == ScoreRows(embeddings, debias_vector(main_vec, remove_vec))
     IN qry' = [NoQuery EXCEPT !.pc = "fetch", !.mode = "debias",
                               !.query = <<main_concept, remove_concept>>,
                               !.limit = limit,
                               !.reranked = scores,
                               !.top_results = TopResults(scores, limit),
                               !.total_candidates = Len(embeddings),
                               !.ids = SeqIds(scores),
                               !.sims = Len(scores),
                               !.hist = Scan(debias_vector(main_vec, remove_vec), scores,
                                             {main_concept, remove_concept})]
  /\ response' = NoResponse
  /\ UNCHANGED <<batch, sync_tasks, disk, documents, embeddings, documents_fts, concept_vectors,
                 sync_status, run, prev>>

(* keyword_search, line 17: db.fts_search(query, limit) *)
KeywordStart(q, limit) ==
  /\ qry.pc = "idle"
  /\ \E results \in fts_search(documents_fts, q, limit) :
       qry' = [NoQuery EXCEPT !.pc = "fetch", !.mode = "keyword", !.query = q,
                              !.limit = limit,
                              !.keyword_results = results,
                              !.top_results = results,
                              !.total_candidates = Len(results),
                              !.ids = SeqIds(results),
                              !.matching = MatchingIds(q)]
  /\ response' = NoResponse
  /\ UNCHANGED <<batch, sync_tasks, disk, documents, embeddings, documents_fts, concept_vectors,
                 sync_status, run, prev>>

\* semantic_search keeping the vector of the query as a concept named after it
SemanticStart_CachesQuery(q, limit) ==
  /\ qry.pc = "idle"
  /\ LET scores == ScoreRows(embeddings, EmbeddingOf(q))
     IN qry' = [NoQuery EXCEPT !.pc = "fetch", !.mode = "semantic", !.query = q,
                               !.limit = limit,
                               !.reranked = scores,
                               !.top_results = TopResults(scores, limit),
                               !.total_candidates = Len(embeddings),
                               !.ids = SeqIds(scores),
                               !.calls = 1,
                               !.sims = Len(scores),
                               !.hist = Scan(EmbeddingOf(q), scores, {})]
  /\ concept_vectors' = ConceptsAfterInsert(concept_vectors, "query", EmbeddingOf(q), q)
  /\ response' = NoResponse
  /\ UNCHANGED <<batch, sync_tasks, disk, documents, embeddings, documents_fts, sync_status, run, prev>>

(* semantic_search, lines 52-66: embed the query, scan, sort, truncate *)
SemanticStart(q, limit) ==
  /\ qry.pc = "idle"
  /\ \E ok \in BOOLEAN :
       IF ok
       THEN LET scores == ScoreRows(embeddings, EmbeddingOf(q))
            IN /\ qry' = [NoQuery EXCEPT !.pc = "fetch", !.mode = "semantic", !.query = q,
                                         !.limit = limit,
                                         !.reranked = scores,
                                         !.top_results = TopResults(scores, limit),
                                         !.total_candidates = Len(embeddings),
                                         !.ids = SeqIds(scores),
                                         !.calls = 1,
                                         !.sims = Len(scores),
                                         !.hist = Scan(EmbeddingOf(q), scores, {})]
               /\ response' = NoResponse
       ELSE /\ qry' = NoQuery
            /\ response' = Raised("semantic", q, 1)
  /\ UNCHANGED <<batch, sync_tasks, disk, documents, embeddings, documents_fts, concept_vectors,
                 sync_status, run, prev>>

\* concept_mix: the weights asked for, by concept name
Weights == {1, 2}

ConceptMixes == UNION {[S -> Weights] : S \in SUBSET ConceptNames \ {{}}}

\* vector_search, lines 193-197: the names that have a stored vector, each
\* with its vector and its weight
LoadConcepts(concepts, concept_mix) ==
  [n \in {x \in DOMAIN concept_mix : get_concept(concepts, x) # {}} |->
     [vec |-> CHOOSE v \in get_concept(concepts, n) : TRUE, weight |-> concept_mix[n]]]

(* vector_search, lines 193-208: no requested name has a vector *)
ConceptNoValid(concept_mix, limit) ==
  /\ qry.pc = "idle"
  /\ DOMAIN LoadConcepts(concept_vectors, concept_mix) = {}
  /\ response' = Reply("concept", concept_mix, limit, <<>>, 0,
                       "No valid concepts found", 0, 0, {}, {})
  /\ UNCHANGED <<batch, sync_tasks, disk, documents, embeddings, documents_fts, concept_vectors,
                 sync_status, run, qry, prev>>

(* vector_search, lines 193-222: mix the resolved vectors, scan, sort, truncate *)
ConceptStart(concept_mix, limit) ==
  /\ qry.pc = "idle"
  /\ LET vectors == LoadConcepts(concept_vectors, concept_mix)
         mixed == mix_vectors(vectors)
         scores == ScoreRows(embeddings, mixed)
     IN /\ DOMAIN vectors # {}
        /\ qry' = [NoQuery EXCEPT !.pc = "fetch", !.mode = "concept",
                                  !.query = concept_mix,
                                  !.limit = limit,
                                  !.reranked = scores,
                                  !.top_results = TopResults(scores, limit),
                                  !.total_candidates = Len(embeddings),
                                  !.ids = SeqIds(scores),
                                  !.sims = Len(scores),
                                  !.hist = Scan(mixed, scores, DOMAIN vectors)]
  /\ response' = NoResponse
  /\ UNCHANGED <<batch, sync_tasks, disk, documents, embeddings, documents_fts, concept_vectors,
                 sync_status, run, prev>>

(* "Fetch document details" and the return of a query *)
Fetch ==
  /\ qry.pc = "fetch"
  /\ response' = Reply(qry.mode, qry.query, qry.limit,
                       FetchRows(qry.top_results, documents), qry.total_candidates, "",
                       qry.calls, qry.sims, qry.matching, qry.embedded)
  /\ qry' = NoQuery
  /\ UNCHANGED <<batch, sync_tasks, disk, documents, embeddings, documents_fts, concept_vectors,
                 sync_status, run, prev>>

(***************************************************************************)
(* Batch embedding (embeddings.py)                                         *)
(***************************************************************************)
\* What a request to the provider gives: the vectors, or an exception with
\* this text
ProviderOutcomes == {"ok", "rate_limit_exceeded", "server_error"}

\* every failure taken for a rate limit
IsRateLimit_Always(e) == e # "ok"

\* "rate_limit" in str(e).lower()
IsRateLimit(e) == e = "rate_limit_exceeded"

\* t[:32000]: the texts of the model are shorter
Truncate(t) == t

\* texts[i:i + EMBEDDING_BATCH_SIZE], each text truncated
BatchOf(texts, i) ==
  [k \in 1..(Min(i + EMBEDDING_BATCH_SIZE, Len(texts)) - i) |-> Truncate(texts[i + k])]

\* the vectors of response.data, one per input of the request, in its order
VectorsOf(chunk) == [k \in DOMAIN chunk |-> EmbeddingOf(chunk[k])]

BatchInputs == UNION {[1..n -> Texts] : n \in 0..MaxBatchTexts}

\* What batch_generate_embeddings gives its caller: the list, or an exception
BatchReturn(b, raised) ==
  [op |-> "batch_generate_embeddings", raised |-> raised, texts |-> b.texts,
   callback |-> b.callback, embeddings |-> b.embeddings,
   log |-> b.log, sleeps |-> b.sleeps, progress |-> b.progress]

\* The chunk at b.i is embedded: the for loop goes to the next chunk or ends
BatchAdvance(b) ==
  IF b.i + EMBEDDING_BATCH_SIZE < Len(b.texts)
  THEN /\ batch' = [b EXCEPT !.pc = "attempt", !.i = b.i + EMBEDDING_BATCH_SIZE]
       /\ response' = NoResponse
  ELSE /\ batch' = NoBatch
       /\ response' = BatchReturn(b, FALSE)

(* batch_generate_embeddings, lines 25-31: the client check and the empty list *)
BatchStart(texts, callback) ==
  /\ batch.pc = "idle"
  /\ \E configured \in BOOLEAN :
       LET b == [NoBatch EXCEPT !.texts = texts, !.callback = callback]
       IN IF ~configured
          THEN /\ batch' = NoBatch
               /\ response' = BatchReturn(b, TRUE)
          ELSE IF texts = <<>>
               THEN /\ batch' = NoBatch
                    /\ response' = BatchReturn(b, FALSE)
               ELSE /\ batch' = [b EXCEPT !.pc = "attempt"]
                    /\ response' = NoResponse
  /\ UNCHANGED <<sync_tasks, disk, documents, embeddings, documents_fts, concept_vectors,
                 sync_status, run, qry, prev>>

(* lines 32-50 and 58-59: the first request of a chunk *)
BatchAttempt ==
  /\ batch.pc = "attempt"
  /\ \E outcome \in ProviderOutcomes :
       LET chunk == BatchOf(batch.texts, batch.i)
           sent == [batch EXCEPT !.log = Append(batch.log, [i |-> batch.i, outcome |-> outcome])]
       IN IF outcome = "ok"
          THEN BatchAdvance(
                 [sent EXCEPT
                    !.embeddings = batch.embeddings \o VectorsOf(chunk),
                    !.progress = IF batch.callback
                                 THEN Append(batch.progress,
                                             <<Min(batch.i + EMBEDDING_BATCH_SIZE, Len(batch.texts)),
                                               Len(batch.texts)>>)
                                 ELSE batch.progress])
          ELSE IF IsRateLimit(outcome)
               THEN /\ batch' = [sent EXCEPT !.pc = "retry", !.sleeps = batch.sleeps + 1]
                    /\ response' = NoResponse
               ELSE /\ batch' = NoBatch
                    /\ response' = BatchReturn(sent, TRUE)
  /\ UNCHANGED <<sync_tasks, disk, documents, embeddings, documents_fts, concept_vectors,
                 sync_status, run, qry, prev>>

(* lines 51-57: the request sent again after time.sleep(60) *)
BatchRetry ==
  /\ batch.pc = "retry"
  /\ \E outcome \in ProviderOutcomes :
       LET chunk == BatchOf(batch.texts, batch.i)
           sent == [batch EXCEPT !.log = Append(batch.log, [i |-> batch.i, outcome |-> outcome])]
       IN IF outcome = "ok"
          THEN BatchAdvance([sent EXCEPT !.embeddings = batch.embeddings \o VectorsOf(chunk)])
          ELSE /\ batch' = NoBatch
               /\ response' = BatchReturn(sent, TRUE)
  /\ UNCHANGED <<sync_tasks, disk, documents, embeddings, documents_fts, concept_vectors,
                 sync_status, run, qry, prev>>

(***************************************************************************)
(* Snippets (search.py)                                                    *)
(***************************************************************************)
ContextChars == 1   \* context_chars, the characters kept on each side (150 in search.py)
PrefixChars == 2    \* the prefix given when no term occurs (300 in search.py)
MaxContent == 5     \* longest document content
MaxQueryChars == 3  \* longest query

Space == " "
Ellipsis == "..."               \* the marker, one element of a snippet
Letters == {"a", "b", "A"}

Contents == UNION {[1..n -> Letters] : n \in 0..MaxContent}

\* api_search: query = data.get("query", "").strip(), and "Query required"
\* when nothing is left
QueryTexts ==
  {q \in UNION {[1..n -> Letters \cup {Space}] : n \in 1..MaxQueryChars} :
     q[1] # Space /\ q[Len(q)] # Space}

Max(a, b) == IF a >= b THEN a ELSE b

\* str.lower()
lower(s) == [k \in DOMAIN s |-> IF s[k] = "A" THEN "a" ELSE s[k]]

\* The length of the run of non-blank characters s starts with
WordLen(s) ==
  CHOOSE n \in 0..Len(s) :
    /\ \A k \in 1..n : s[k] # Space
    /\ n = Len(s) \/ s[n + 1] = Space

RECURSIVE split(_)
\* str.split(): the runs of non-blank characters, in order
split(s) ==
  IF s = <<>> THEN <<>>
  ELSE IF Head(s) = Space THEN split(Tail(s))
       ELSE <<SubSeq(s, 1, WordLen(s))>> \o split(SubSeq(s, WordLen(s) + 1, Len(s)))

\* str.find(term): the lowest offset (from 0) term occurs at, or -1
find(s, term) ==
  LET at == {pos \in 0..(Len(s) - Len(term)) : SubSeq(s, pos + 1, pos + Len(term)) = term}
  IN IF at = {} THEN 0 - 1 ELSE CHOOSE pos \in at : \A other \in at : pos <= other

RECURSIVE BestPos(_, _, _)
\* lines 327-331: the loop over query_terms
BestPos(content_lower, query_terms, best_pos) ==
  IF query_terms = <<>> THEN best_pos
  ELSE LET pos == find(content_lower, Head(query_terms))
       IN BestPos(content_lower, Tail(query_terms),
                  IF 0 <= pos /\ pos < best_pos THEN pos ELSE best_pos)

\* _extract_snippet(content, query)
extract_snippet(content, query) ==
  LET best_pos == BestPos(lower(content), split(lower(query)), Len(content))
  IN IF best_pos = Len(content)
     THEN IF Len(content) > PrefixChars
          THEN Append(SubSeq(content, 1, PrefixChars), Ellipsis)
          ELSE content
     ELSE LET start == Max(0, best_pos - ContextChars)
              end == Min(Len(content), best_pos + ContextChars + Len(query))
          IN (IF start > 0 THEN <<Ellipsis>> ELSE <<>>)
               \o SubSeq(content, start + 1, end)
               \o (IF end < Len(content) THEN <<Ellipsis>> ELSE <<>>)

(* keyword_search line 29, hybrid_search line 144: the snippet of a result *)
ExtractSnippet(content, query) ==
  /\ response' = [op |-> "extract_snippet", content |-> content, query |-> query,
                  snippet |-> extract_snippet(content, query)]
  /\ UNCHANGED <<batch, sync_tasks, disk, documents, embeddings, documents_fts, concept_vectors,
                 sync_status, run, qry, prev>>

(***************************************************************************)
(* Calls of the vector routines (embeddings.py)                            *)
(***************************************************************************)
MaxCoord == 3       \* largest component of a vector given to the routines

Vectors == (0 - MaxCoord..MaxCoord) \X (0 - MaxCoord..MaxCoord)

(* normalize(v) *)
Normalize(v) ==
  /\ response' = [op |-> "normalize", v |-> v, result |-> normalize(v)]
  /\ UNCHANGED <<batch, sync_tasks, disk, documents, embeddings, documents_fts, concept_vectors,
                 sync_status, run, qry, prev>>

(* debias_vector(main, bias) *)
Debias(main, bias) ==
  /\ response' = [op |-> "debias_vector", main |-> main, bias |-> bias,
                  result |-> debias_vector(main, bias)]
  /\ UNCHANGED <<batch, sync_tasks, disk, documents, embeddings, documents_fts, concept_vectors,
                 sync_status, run, qry, prev>>

(***************************************************************************)
(* Background sync tasks (app.py)                                          *)
(***************************************************************************)
MaxTasks == 2       \* POST /admin/sync requests that are made

(* POST /admin/sync, lines 70-126: list the folder, create the task record,
   start the thread of run_sync *)
AdminSync(w) ==
  /\ ~InFlight(w)
  /\ Len(sync_tasks) < MaxTasks
  /\ LET found == find_documents(disk)
         task_id == Len(sync_tasks) + 1
     IN /\ sync_tasks' = Append(sync_tasks,
                                [id |-> task_id, status |-> "running", total |-> Len(found),
                                 processed |-> 0, current_file |-> 0, added |-> 0,
                                 updated |-> 0, unchanged |-> 0, errors |-> <<>>])
        /\ run' = [run EXCEPT ![w] = [IdleRun EXCEPT !.pc = "starting", !.task = task_id]]
        /\ response' = [op |-> "admin_sync", task_id |-> task_id, total |-> Len(found)]
  /\ UNCHANGED <<batch, disk, documents, embeddings, documents_fts, concept_vectors,
                 sync_status, qry, prev>>

(* the thread of run_sync enters sync_folder: the folder is listed again *)
StartTaskRun(w) ==
  /\ run[w].pc = "starting"
  /\ LET docs == find_documents(disk)
     IN run' = [run EXCEPT ![w] =
                  [run[w] EXCEPT !.pc = IF docs = <<>> THEN "status" ELSE "lookup",
                                 !.docs = docs, !.after = prev]]
  /\ response' = NoResponse
  /\ UNCHANGED <<batch, sync_tasks, disk, documents, embeddings, documents_fts, concept_vectors,
                 sync_status, qry, prev>>

(* sync_folder, line 172: db.update_sync_status raises (the database is
   locked, the disk is full); nothing catches it in sync_folder or in
   run_sync, and the thread ends *)
FinishSyncFails(w) ==
  /\ run[w].pc = "status"
  /\ run' = [run EXCEPT ![w] = IdleRun]
  /\ response' = [op |-> "sync_folder_raised", task |-> run[w].task]
  /\ UNCHANGED <<batch, sync_tasks, disk, documents, embeddings, documents_fts, concept_vectors,
                 sync_status, qry, prev>>

(***************************************************************************)
(* Specifications                                                          *)
(***************************************************************************)
Limits == 0..MaxLimit

(* The caller takes what the call returned. *)
Deliver ==
  /\ response # NoResponse
  /\ response' = NoResponse
  /\ UNCHANGED <<batch, sync_tasks, disk, documents, embeddings, documents_fts, concept_vectors,
                 sync_status, run, qry, prev>>

\* A step is taken once the last return value has been taken.
Taken == response = NoResponse

\* The indexer and the administrative routes, one call after the other, the
\* folder changing at any time.
Next ==
  \/ Deliver
  \/ \E p \in Paths, b \in Bytes : Taken /\ WriteFile(p, b)
  \/ \E p \in Paths : Taken /\ RemoveFile(p)
  \/ Taken /\ Quiescent /\ StartSync("t1")
  \/ \E p \in Paths, force \in BOOLEAN : Taken /\ Quiescent /\ StartProcess("t1", p, force)
  \/ \E w \in Workers : Taken /\ Lookup(w)
  \/ \E w \in Workers : Taken /\ ExtractFails(w)
  \/ \E w \in Workers : Taken /\ EmbedFails(w)
  \/ \E w \in Workers : Taken /\ InsertDocument(w)
  \/ \E w \in Workers : Taken /\ InsertEmbedding(w)
  \/ \E w \in Workers : Taken /\ FinishSync(w)
  \/ \E doc_id \in Ids : Taken /\ Quiescent /\ DeleteDocument(doc_id)
  \/ Taken /\ Quiescent /\ RemoveDeleted

Spec == Init /\ [][Next]_vars

\* Sync runs started while another is under way: POST /admin/sync starts a
\* thread per request.
NextConc ==
  \/ Deliver
  \/ \E p \in Paths, b \in Bytes : Taken /\ Quiescent /\ WriteFile(p, b)
  \/ \E p \in Paths : Taken /\ Quiescent /\ RemoveFile(p)
  \/ Taken /\ StartSync("t1")
  \/ Taken /\ InFlight("t1") /\ StartSync("t2")
  \/ \E w \in Workers : Taken /\ Lookup(w)
  \/ \E w \in Workers : Taken /\ ExtractFails(w)
  \/ \E w \in Workers : Taken /\ EmbedFails(w)
  \/ \E w \in Workers : Taken /\ InsertDocument(w)
  \/ \E w \in Workers : Taken /\ InsertEmbedding(w)
  \/ \E w \in Workers : Taken /\ FinishSync(w)
  \/ \E doc_id \in Ids : Taken /\ Quiescent /\ DeleteDocument(doc_id)

SpecConc == Init /\ [][NextConc]_vars

\* Hybrid queries over a corpus built by sync runs; a query may be answered
\* while a run is under way.
NextSearch ==
  \/ Deliver
  \/ \E p \in Paths, b \in Bytes : Taken /\ Quiescent /\ WriteFile(p, b)
  \/ \E p \in Paths : Taken /\ Quiescent /\ RemoveFile(p)
  \/ Taken /\ Quiescent /\ StartSync("t1")
  \/ \E w \in Workers : Taken /\ Lookup(w)
  \/ \E w \in Workers : Taken /\ ExtractFails(w)
  \/ \E w \in Workers : Taken /\ EmbedFails(w)
  \/ \E w \in Workers : Taken /\ InsertDocument(w)
  \/ \E w \in Workers : Taken /\ InsertEmbedding(w)
  \/ \E w \in Workers : Taken /\ FinishSync(w)
  \/ \E q \in Queries, limit \in Limits : Taken /\ HybridNoCandidates(q, limit)
  \/ \E q \in Queries, limit \in Limits : Taken /\ HybridStart(q, limit)
  \/ Taken /\ HybridRerank
  \/ Taken /\ Fetch

SpecSearch == Init /\ [][NextSearch]_vars

\* The concept store and the queries that read it, over a corpus built and
\* reconciled by sync runs, one call after the other.
NextConcepts ==
  \/ Deliver
  \/ \E p \in Paths, b \in Bytes : Taken /\ Quiescent /\ WriteFile(p, b)
  \/ \E p \in Paths : Taken /\ Quiescent /\ RemoveFile(p)
  \/ Taken /\ Quiescent /\ StartSync("t1")
  \/ \E w \in Workers : Taken /\ Lookup(w)
  \/ \E w \in Workers : Taken /\ ExtractFails(w)
  \/ \E w \in Workers : Taken /\ EmbedFails(w)
  \/ \E w \in Workers : Taken /\ InsertDocument(w)
  \/ \E w \in Workers : Taken /\ InsertEmbedding(w)
  \/ \E w \in Workers : Taken /\ FinishSync(w)
  \/ \E doc_id \in Ids : Taken /\ Quiescent /\ DeleteDocument(doc_id)
  \/ Taken /\ Quiescent /\ RemoveDeleted
  \/ \E name \in ConceptNames, text \in Texts : Taken /\ Quiescent /\ StoreConcept(name, text)
  \/ \E name \in ConceptNames : Taken /\ Quiescent /\ DeleteConcept(name)
  \/ \E m, r \in ConceptNames, limit \in Limits : Taken /\ Quiescent /\ DebiasNotFound(m, r, limit)
  \/ \E m, r \in ConceptNames, limit \in Limits : Taken /\ Quiescent /\ DebiasStart(m, r, limit)
  \/ Taken /\ Fetch

SpecConcepts == Init /\ [][NextConcepts]_vars

\* The five retrieval modes over a corpus built by process_document calls
\* and concepts stored by the caller, one call after the other.
NextModes ==
  \/ Deliver
  \/ \E p \in Paths, b \in Bytes : Taken /\ Quiescent /\ WriteFile(p, b)
  \/ \E p \in Paths : Taken /\ Quiescent /\ StartProcess("t1", p, FALSE)
  \/ \E w \in Workers : Taken /\ Lookup(w)
  \/ \E w \in Workers : Taken /\ ExtractFails(w)
  \/ \E w \in Workers : Taken /\ EmbedFails(w)
  \/ \E w \in Workers : Taken /\ InsertDocument(w)
  \/ \E w \in Workers : Taken /\ InsertEmbedding(w)
  \/ \E name \in ConceptNames, text \in Texts : Taken /\ Quiescent /\ StoreConcept(name, text)
  \/ \E q \in Queries, limit \in Limits : Taken /\ Quiescent /\ KeywordStart(q, limit)
  \/ \E q \in Queries, limit \in Limits : Taken /\ Quiescent /\ SemanticStart(q, limit)
  \/ \E q \in Queries, limit \in Limits : Taken /\ Quiescent /\ HybridNoCandidates(q, limit)
  \/ \E q \in Queries, limit \in Limits : Taken /\ Quiescent /\ HybridStart(q, limit)
  \/ Taken /\ HybridRerank
  \/ \E mix \in ConceptMixes, limit \in Limits : Taken /\ Quiescent /\ ConceptNoValid(mix, limit)
  \/ \E mix \in ConceptMixes, limit \in Limits : Taken /\ Quiescent /\ ConceptStart(mix, limit)
  \/ \E m, r \in ConceptNames, limit \in Limits : Taken /\ Quiescent /\ DebiasNotFound(m, r, limit)
  \/ \E m, r \in ConceptNames, limit \in Limits : Taken /\ Quiescent /\ DebiasStart(m, r, limit)
  \/ Taken /\ Fetch

SpecModes == Init /\ [][NextModes]_vars

\* Calls of batch_generate_embeddings, with a provider that answers, reports
\* a rate limit or fails in another way at each request.
NextBatch ==
  \/ Deliver
  \/ \E texts \in BatchInputs, callback \in BOOLEAN : Taken /\ BatchStart(texts, callback)
  \/ Taken /\ BatchAttempt
  \/ Taken /\ BatchRetry

SpecBatch == Init /\ [][NextBatch]_vars

\* Snippets of every content for every query, blanks and capitals included.
NextSnippet ==
  \/ Deliver
  \/ \E content \in Contents, query \in QueryTexts : Taken /\ ExtractSnippet(content, query)

SpecSnippet == Init /\ [][NextSnippet]_vars

\* The vector routines called with every vector of the grid, the zero vector
\* included.
NextVector ==
  \/ Deliver
  \/ \E v \in Vectors : Taken /\ Normalize(v)
  \/ \E main, bias \in Vectors : Taken /\ Debias(main, bias)

SpecVector == Init /\ [][NextVector]_vars

\* A step of the thread of a sync run
RunStep(w) ==
  \/ Lookup(w)
  \/ ExtractFails(w)
  \/ EmbedFails(w)
  \/ InsertDocument(w)
  \/ InsertEmbedding(w)
  \/ FinishSync(w)

\* Sync runs one after the other; files are written between the runs and
\* removed at any time.
NextSync ==
  \/ Deliver
  \/ \E p \in Paths, b \in Bytes : Taken /\ Quiescent /\ WriteFile(p, b)
  \/ \E p \in Paths : Taken /\ RemoveFile(p)
  \/ Taken /\ Quiescent /\ StartSync("t1")
  \/ \E w \in Workers : Taken /\ RunStep(w)

\* The thread of a run is scheduled again and again, every call it makes
\* returns, and the caller takes what a run returned.
SpecSync ==
  /\ Init /\ [][NextSync]_vars
  /\ WF_vars(Deliver)
  /\ \A w \in Workers : WF_vars(Taken /\ RunStep(w))

\* No thread of the indexer is at work
NoRun == \A w \in Workers : ~InFlight(w)

\* Queries that rank the stored embeddings, with documents deleted while a
\* query is being answered: by the delete route and by deletion
\* reconciliation after files were removed.  The files hold text and stay
\* in place while process_document reads them, so extraction gives a text.
NextDeletes ==
  \/ Deliver
  \/ \E p \in Paths, b \in Texts : Taken /\ Quiescent /\ WriteFile(p, b)
  \/ \E p \in Paths : Taken /\ NoRun /\ RemoveFile(p)
  \/ \E p \in Paths : Taken /\ Quiescent /\ StartProcess("t1", p, FALSE)
  \/ \E w \in Workers : Taken /\ Lookup(w)
  \/ \E w \in Workers : Taken /\ EmbedFails(w)
  \/ \E w \in Workers : Taken /\ InsertDocument(w)
  \/ \E w \in Workers : Taken /\ InsertEmbedding(w)
  \/ \E doc_id \in Ids : Taken /\ NoRun /\ DeleteDocument(doc_id)
  \/ Taken /\ NoRun /\ RemoveDeleted
  \/ \E name \in ConceptNames, text \in Texts : Taken /\ Quiescent /\ StoreConcept(name, text)
  \/ \E q \in Queries, limit \in Limits : Taken /\ NoRun /\ SemanticStart(q, limit)
  \/ \E q \in Queries, limit \in Limits : Taken /\ NoRun /\ HybridStart(q, limit)
  \/ Taken /\ HybridRerank
  \/ \E mix \in ConceptMixes, limit \in Limits : Taken /\ NoRun /\ ConceptStart(mix, limit)
  \/ \E m, r \in ConceptNames, limit \in Limits : Taken /\ NoRun /\ DebiasStart(m, r, limit)
  \/ Taken /\ Fetch

SpecDeletes == Init /\ [][NextDeletes]_vars

\* No thread has entered the loop of sync_folder
BeforeLoops == \A w \in Workers : run[w].pc \in {"idle", "starting"}

\* A step of the thread of a task
TaskStep(w) ==
  \/ StartTaskRun(w)
  \/ RunStep(w)
  \/ FinishSyncFails(w)

\* Sync tasks started by POST /admin/sync, one after the other; the folder
\* changes between the tasks and between a request and the start of its
\* thread; persisting the sync status succeeds or fails.
NextTasks ==
  \/ Deliver
  \/ \E p \in Paths, b \in Bytes : Taken /\ BeforeLoops /\ WriteFile(p, b)
  \/ \E p \in Paths : Taken /\ BeforeLoops /\ RemoveFile(p)
  \/ Taken /\ NoRun /\ AdminSync("t1")
  \/ \E w \in Workers : Taken /\ TaskStep(w)

\* The thread of a task is scheduled again and again, and the caller takes
\* what a request returned.
SpecTasks ==
  /\ Init /\ [][NextTasks]_vars
  /\ WF_vars(Deliver)
  /\ \A w \in Workers : WF_vars(Taken /\ TaskStep(w))

(***************************************************************************)
(* Properties                                                              *)
(***************************************************************************)
IsSummary == response.op = "sync_folder"

AllUnchanged ==
  /\ response.added = 0
  /\ response.updated = 0
  /\ response.unchanged = response.total
  /\ response.calls = 0

FilepathUnique ==
  \A d, e \in documents : d.filepath = e.filepath => d = e

IdStable ==
  \A d \in documents : \A e \in documents' : d.filepath = e.filepath => d.id = e.id

\* C2: no two stored documents share a filepath, and while a record exists
\* for a filepath its id does not change, whatever the calls made.
C2_UniquePathStableId ==
  FilepathUnique /\ [][FilepathUnique' /\ IdStable]_vars

\* A sync run has just rewritten the record of a file whose hash changed.
C2_Witness ==
  /\ run["t1"].pc = "insemb" /\ run["t1"].kind = "sync" /\ run["t1"].existing # NoRow
  /\ \E d \in documents :
       /\ d.id = run["t1"].doc_id
       /\ d.filepath = CurrentFile(run["t1"])
       /\ d.file_hash = compute_file_hash(disk[d.filepath].bytes)

EmbeddingRowsOf(doc_id) == {k \in DOMAIN embeddings : embeddings[k].document_id = doc_id}

\* C3: when no call is under way, every embedding belongs to a stored
\* document, every stored document has exactly one embedding, and a deleted
\* document has left no embedding.
C3_EmbeddingsOneToOne ==
  Quiescent =>
    /\ EmbIds(embeddings) \subseteq DocIds(documents)
    /\ \A d \in documents : Cardinality(EmbeddingRowsOf(d.id)) = 1
    /\ response.op = "delete_document" => response.deleted \notin EmbIds(embeddings)

\* A document was deleted while another stays stored with its embedding.
C3_Witness ==
  /\ Quiescent /\ response.op = "delete_document"
  /\ documents # {} /\ embeddings # <<>>

\* C4, as stated: after every committed write or delete the full-text index
\* holds exactly the stored document ids, one entry per document, with the
\* document's title and content.
C4_FtsLockstep ==
  /\ FtsIds(documents_fts) = DocIds(documents)
  /\ \A d \in documents :
       {f \in documents_fts : f.document_id = d.id}
         = {[document_id |-> d.id, title |-> d.title, content |-> d.content]}

\* A step of process_document's lines 81-87, and of its lines 90-108
LookupStep(w) ==
  /\ run[w].pc = "lookup"
  /\ run'[w].pc # "lookup" \/ run'[w].processed # run[w].processed

ExtractStep(w) == run[w].pc = "extract" /\ run'[w].pc # "extract"

\* the result process_document gave in the step, "process" when it went on
OutcomeOf(w) ==
  IF run[w].kind = "single"
  THEN IF response'.op = "process_document" THEN response'.status ELSE "process"
  ELSE IF run'[w].unchanged = run[w].unchanged + 1 THEN "unchanged"
       ELSE IF Len(run'[w].errors) = Len(run[w].errors) + 1 THEN "error"
       ELSE "process"

\* the provider calls of the call after the step
CallsAfter(w) == IF run'[w].pc = "idle" THEN response'.calls ELSE run'[w].calls

HasCurrentHash(p) ==
  /\ disk[p].exists
  /\ \E d \in documents :
       d.filepath = p /\ d.file_hash = compute_file_hash(disk[p].bytes)

DecisionOf(w) ==
  LET p == CurrentFile(run[w])
      skip == HasCurrentHash(p) /\ ~run[w].force
  IN /\ LookupStep(w) =>
          /\ OutcomeOf(w) = "unchanged" <=> skip
          /\ skip => /\ documents' = documents
                     /\ embeddings' = embeddings
                     /\ documents_fts' = documents_fts
                     /\ CallsAfter(w) = run[w].calls
          /\ ~skip /\ disk[p].exists => run'[w].pc = "extract"
     /\ ExtractStep(w) /\ disk[p].exists /\ ~IsEmptyContent(extract_text(disk[p].bytes))
          => CallsAfter(w) = run[w].calls + 1

Counts(r) == r.added + r.updated + r.unchanged + Len(r.errors)

\* C6: a file that ends in error does not end the run: the loop is left only
\* when every file of the list is counted, and the summary returned has
\* processed = total and added + updated + unchanged + errors = total.
C6_CompleteSummary ==
  /\ IsSummary => response.processed = response.total /\ Counts(response) = response.total
  /\ \A w \in Workers :
       InFlight(w) /\ run[w].kind = "sync" =>
         /\ Counts(run[w]) = run[w].processed
         /\ run[w].pc = "status" <=> run[w].processed = Len(run[w].docs)

\* The first file ended in error and the second was added.
C6_Witness ==
  /\ IsSummary /\ response.total = 2
  /\ response.errors = <<response.docs[1]>> /\ response.added = 1

RemovalEffect ==
  LET goneRows == {d \in documents : ~disk[d.filepath].exists}
      goneIds == {d.id : d \in goneRows}
  IN /\ documents' = documents \ goneRows
     /\ Range(embeddings') = {e \in Range(embeddings) : e.document_id \notin goneIds}
     /\ Len(embeddings') = Cardinality(DOMAIN embeddings \ UNION {EmbeddingRowsOf(i) : i \in goneIds})
     /\ documents_fts' = {f \in documents_fts : f.document_id \notin goneIds}
     /\ concept_vectors' = concept_vectors
     /\ response'.removed = Cardinality(goneRows)
     /\ Cardinality(documents') = Cardinality(documents) - response'.removed

\* C7: remove_deleted_documents removes exactly the documents whose file is
\* gone, with their embedding and full-text entry, leaves the other rows and
\* the concepts as they are, and returns the number removed.
C7_RemovesExactlyTheGone ==
  [][response'.op = "remove_deleted_documents" => RemovalEffect]_vars

\* One of two indexed files was removed from the folder, then reconciled.
C7_Witness ==
  /\ response.op = "remove_deleted_documents" /\ response.removed = 1
  /\ Cardinality(documents) = 1 /\ Len(embeddings) = 1 /\ concept_vectors # {}

IsAnswer(mode) == response.op = mode /\ ~response.raised

\* C8: the results of a hybrid query are keyword candidates of the query,
\* each had a stored embedding, they are in non-increasing order of combined
\* score, and they are at most `limit`.
C8_HybridResults ==
  IsAnswer("hybrid") =>
    /\ \A k \in DOMAIN response.results :
         /\ response.results[k].id \in response.candidates
         /\ response.results[k].id \in response.embedded
    /\ \A i, j \in DOMAIN response.results :
         i < j => response.results[i].score >= response.results[j].score
    /\ Len(response.results) <= response.limit
    /\ response.returned = Len(response.results)

\* Two candidates were returned, the second with the lower combined score.
C8_Witness ==
  /\ IsAnswer("hybrid") /\ Len(response.results) = 2
  /\ response.results[1].score > response.results[2].score

\* C9: a hybrid query without keyword candidates returns no result, reports
\* zero candidates and does not call the provider; the provider is called,
\* once, exactly when there is a candidate.
C9_NoCandidatesNoEmbedding ==
  response.op = "hybrid" =>
    /\ response.calls = IF response.raised \/ response.candidates # {} THEN 1 ELSE 0
    /\ IsAnswer("hybrid") /\ response.candidates = {} =>
         /\ response.results = <<>>
         /\ response.total_candidates = 0
         /\ response.returned = 0
    /\ IsAnswer("hybrid") /\ response.candidates # {} => response.total_candidates > 0

\* A query whose word is in no stored text, over a corpus that is not empty.
C9_Witness ==
  /\ IsAnswer("hybrid") /\ response.total_candidates = 0 /\ response.calls = 0
  /\ documents_fts # {}

ConceptStored(name) == \E c \in concept_vectors : c.name = name

\* A debias query that names a concept with no stored vector returns no
\* result and a diagnostic, does not raise and computes no similarity.
DebiasNotFoundIsQuiet ==
  response.op = "debias" /\ (\E k \in 1..2 : ~ConceptStored(response.query[k])) =>
    /\ ~response.raised
    /\ response.results = <<>>
    /\ response.error # ""
    /\ response.sims = 0

\* the diagnostic of the same call with the stored and the missing concept
\* exchanged
DiagnosticOfExchanged ==
  NotFoundDiagnostic(get_concept(concept_vectors, response.query[2]),
                     get_concept(concept_vectors, response.query[1]))

\* C10: a debias query that names a concept with no stored vector returns no
\* result, does not raise, computes no similarity, and its diagnostic
\* identifies the missing concept: when one of the two concepts is missing,
\* the diagnostic is not the one given when the other one is missing.
C10_DiagnosticIdentifiesMissing ==
  /\ DebiasNotFoundIsQuiet
  /\ response.op = "debias" /\ ConceptStored(response.query[1]) # ConceptStored(response.query[2])
       => response.error # DiagnosticOfExchanged

\* The main concept is stored, the concept to remove is not, and the corpus
\* holds embeddings a similarity could be computed with.
C10_Witness ==
  /\ IsAnswer("debias") /\ response.error # ""
  /\ ConceptStored(response.query[1]) /\ ~ConceptStored(response.query[2])
  /\ embeddings # <<>>

\* weight * vector of a requested name that has a stored vector, nothing of
\* any other name
ContributionOf(concept_mix, name) ==
  IF name \in DOMAIN concept_mix /\ ConceptStored(name)
  THEN LET c == CHOOSE x \in concept_vectors : x.name = name
       IN <<concept_mix[name] * c.embedding[1], concept_mix[name] * c.embedding[2]>>
  ELSE <<0, 0>>

\* C11: concept mode leaves out every requested name that has no stored
\* vector and searches with the weighted sum, made of unit length, of the
\* others; when no requested name has a vector it returns no result and the
\* diagnostic "No valid concepts found", without reading the embedding set
\* or computing a similarity.
C11_ConceptModeSkipsMissing ==
  response.op = "concept" =>
    LET resolved == {n \in DOMAIN response.query : ConceptStored(n)}
        total == <<ContributionOf(response.query, "ai")[1] + ContributionOf(response.query, "hype")[1],
                   ContributionOf(response.query, "ai")[2] + ContributionOf(response.query, "hype")[2]>>
    IN /\ ~response.raised
       /\ resolved = {} =>
            /\ response.results = <<>>
            /\ response.error = "No valid concepts found"
            /\ response.hist.scans = 0
            /\ response.sims = 0
       /\ resolved # {} =>
            /\ response.error = ""
            /\ response.hist.resolved = resolved
            /\ response.hist.vector = normalize(total)
            /\ response.hist.scans = 1

\* Two names were asked for with different weights, one has no stored
\* vector, and the search with the other returned a document.
C11_Witness ==
  /\ response.op = "concept" /\ response.results # <<>>
  /\ DOMAIN response.query = ConceptNames
  /\ \E n \in ConceptNames : ~ConceptStored(n)
  /\ response.query["ai"] # response.query["hype"]

RetrievalModes == {"keyword", "semantic", "hybrid", "concept", "debias"}

\* A step of a query: the query is under way before or after it, or the step
\* returns the reply of a mode.
QueryStep ==
  qry.pc # "idle" \/ qry'.pc # "idle" \/ response'.op \in RetrievalModes

\* C12: no step of a retrieval mode changes the documents, the embeddings,
\* the full-text entries, the concept vectors or the sync status; of the
\* retrieval engine's operations only store_concept writes, and it writes
\* concept vectors only.
C12_ModesDoNotWrite ==
  [][/\ QueryStep =>
          /\ documents' = documents
          /\ embeddings' = embeddings
          /\ documents_fts' = documents_fts
          /\ concept_vectors' = concept_vectors
          /\ sync_status' = sync_status
     /\ concept_vectors' # concept_vectors => response'.op = "store_concept"
     /\ response'.op = "store_concept" =>
          /\ documents' = documents
          /\ embeddings' = embeddings
          /\ documents_fts' = documents_fts
          /\ sync_status' = sync_status]_vars

\* A semantic query has been answered from a store that holds documents,
\* embeddings and a concept.
C12_Witness ==
  /\ IsAnswer("semantic") /\ response.results # <<>>
  /\ documents # {} /\ embeddings # <<>> /\ documents_fts # {} /\ concept_vectors # {}

ScanModes == {"semantic", "concept", "debias"}

\* the place of a document in the iteration of the embedding set
PlaceOf(scanned, doc_id) == CHOOSE k \in DOMAIN scanned : scanned[k].document_id = doc_id

\* a row ranks before another: higher similarity, or the same and iterated first
RanksBefore(scanned, i, j) ==
  \/ scanned[i].score > scanned[j].score
  \/ scanned[i].score = scanned[j].score /\ i < j

\* C13: in semantic, concept and debias mode the embedding set is iterated
\* in stored order, every result carries the similarity of its document,
\* results are in non-increasing similarity with equal similarities in
\* iteration order, they are the first `limit` of that ranking, and every
\* document left out ranks after every document returned.
C13_StableRankingTruncated ==
  (\E m \in ScanModes : IsAnswer(m)) /\ response.hist.scans = 1 =>
    LET scanned == response.hist.scanned
        results == response.results
        place == [k \in DOMAIN results |-> PlaceOf(scanned, results[k].id)]
    IN /\ Len(scanned) = Len(embeddings)
       /\ \A k \in DOMAIN scanned :
            /\ scanned[k].document_id = embeddings[k].document_id
            /\ scanned[k].score = cosine_similarity(response.hist.vector, embeddings[k].embedding)
       /\ \A k \in DOMAIN results :
            /\ results[k].id \in {scanned[n].document_id : n \in DOMAIN scanned}
            /\ results[k].score = scanned[place[k]].score
       /\ \A i, j \in DOMAIN results : i < j => RanksBefore(scanned, place[i], place[j])
       /\ Len(results) = Min(response.limit, Len(scanned))
       /\ \A n \in DOMAIN scanned :
            n \notin Range(place) => \A k \in DOMAIN results : RanksBefore(scanned, place[k], n)

\* Two documents of equal similarity were returned in the order their
\* embeddings are stored, which is not the order of their paths.
C13_Witness ==
  /\ IsAnswer("semantic") /\ Len(response.results) = 2
  /\ response.results[1].score = response.results[2].score
  /\ response.results[1].score # 0
  /\ response.results[1].filepath > response.results[2].filepath

\* the provider signalled a rate limit
SignalsRateLimit(outcome) == outcome = "rate_limit_exceeded"

\* The requests of a call's history that sent the chunk starting at i
RequestsOf(log, i) == {k \in DOMAIN log : log[k].i = i}

\* The retry policy as the history of a call shows it; `over` says that the
\* call has returned or raised
RetryPolicy(h, over, raised) ==
  /\ \A k \in DOMAIN h.log :
       LET first == \A n \in RequestsOf(h.log, h.log[k].i) : k <= n
           last == k = Len(h.log)
       IN /\ Cardinality(RequestsOf(h.log, h.log[k].i)) <= 2
          \* a rate limit at the first request: the same chunk is sent once more
          /\ first /\ SignalsRateLimit(h.log[k].outcome) /\ (over \/ ~last) =>
               k + 1 \in DOMAIN h.log /\ h.log[k + 1].i = h.log[k].i
          \* any other failure ends the call
          /\ h.log[k].outcome # "ok" /\ ~(first /\ SignalsRateLimit(h.log[k].outcome)) =>
               last /\ over /\ raised
          \* a chunk is sent again only after a rate limit at its first request
          /\ ~first => SignalsRateLimit(h.log[k - 1].outcome) /\ h.log[k - 1].i = h.log[k].i
          \* chunks are sent in input order
          /\ k > 1 => h.log[k - 1].i <= h.log[k].i
  /\ h.sleeps = Cardinality({k \in DOMAIN h.log :
                               /\ SignalsRateLimit(h.log[k].outcome)
                               /\ \A n \in RequestsOf(h.log, h.log[k].i) : k <= n})
  /\ over /\ ~raised =>
       /\ Len(h.embeddings) = Len(h.texts)
       /\ \A k \in DOMAIN h.texts : h.embeddings[k] = EmbeddingOf(h.texts[k])

IsBatchReturn == response.op = "batch_generate_embeddings"

\* C14: a rate limit at the first request of a chunk is followed by one
\* cooldown and one more request of the same chunk; any other failure, and
\* any failure of that second request, ends the call with the exception; no
\* chunk is sent more than twice; a call that returns gives one vector per
\* input text, in input order.
C14_OneRetryAfterRateLimit ==
  /\ batch.pc # "idle" => RetryPolicy(batch, FALSE, FALSE)
  /\ IsBatchReturn => RetryPolicy(response, TRUE, response.raised)

\* A call over three chunks returned after one chunk was sent twice.
C14_Witness ==
  /\ IsBatchReturn /\ ~response.raised /\ response.sleeps = 1
  /\ Len(response.texts) = MaxBatchTexts /\ Len(response.log) = 4

\* the cumulative count after the k-th chunk
DoneAfter(k, total) == Min(k * EMBEDDING_BATCH_SIZE, total)

NumChunks(total) == (total + EMBEDDING_BATCH_SIZE - 1) \div EMBEDDING_BATCH_SIZE

\* C15, as stated: a call that is given a progress callback and returns has
\* invoked it once per chunk, the chunks embedded at their second request
\* included, with the cumulative number of texts embedded, the last
\* invocation reporting total.
C15_ProgressAfterEveryChunk ==
  IsBatchReturn /\ ~response.raised /\ response.callback =>
    LET total == Len(response.texts)
    IN response.progress = [k \in 1..NumChunks(total) |-> <<DoneAfter(k, total), total>>]

\* A call with a callback returned after its last chunk was sent twice.
C15_Witness ==
  /\ IsBatchReturn /\ ~response.raised /\ response.callback
  /\ response.sleeps = 1 /\ Len(response.log) = 2
  /\ SignalsRateLimit(response.log[1].outcome)

\* progress(current, total, filepath) after each of the first n files of docs
ProgressUpTo(docs, n) == [k \in 1..n |-> <<k, Len(docs), docs[k]>>]

\* C16: the progress callback of a sync run is invoked once after every
\* file, whatever the file's outcome, with current = 1, 2, ..., total in this
\* order, the same total, and the path of the file just processed.
C16_ProgressAfterEveryFile ==
  /\ \A w \in Workers :
       InFlight(w) /\ run[w].kind = "sync" =>
         run[w].progress = ProgressUpTo(run[w].docs, run[w].processed)
  /\ IsSummary => response.progress = ProgressUpTo(response.docs, response.total)

\* A run over two files has returned: one ended in error, the other was
\* left unchanged.
C16_Witness ==
  /\ IsSummary /\ response.total = 2 /\ Len(response.progress) = 2
  /\ Len(response.errors) = 1 /\ response.unchanged = 1

SyncStatusWritten == sync_status' # sync_status

\* C17: there is never more than one sync-status record; the record is
\* written only by a run whose loop has counted every file of its list, in
\* the step in which the run returns; and when a run has returned, the
\* record holds that run's processed count.
C17_SyncStatusSingleton ==
  /\ Cardinality(sync_status) <= 1
  /\ [][/\ Cardinality(sync_status') <= 1
        /\ SyncStatusWritten =>
             /\ response'.op = "sync_folder"
             /\ \E w \in Workers :
                  /\ run[w].pc = "status"
                  /\ run[w].processed = Len(run[w].docs)
                  /\ run'[w].pc = "idle"
        /\ response'.op = "sync_folder" =>
             sync_status' = {[id |-> 1, files_processed |-> response'.processed]}]_vars

\* A run over one file has returned and its count is recorded, in a store
\* that holds two documents from earlier runs.
C17_Witness ==
  /\ IsSummary /\ response.processed = 1 /\ Cardinality(documents) = 2
  /\ sync_status = {[id |-> 1, files_processed |-> 1]}

HasRecord(docs, p) == \E d \in docs : d.filepath = p

\* lines 108 and 109-112 of process_document
InsertDocumentStep(w) == run[w].pc = "extract" /\ run'[w].pc = "insemb"

InsertEmbeddingStep(w) == run[w].pc = "insemb" /\ run'[w].pc # "insemb"

\* the result process_document gave in the step that ended it
StatusGiven(w) ==
  IF run[w].kind = "single" THEN response'.status
  ELSE IF run'[w].added = run[w].added + 1 THEN "added"
       ELSE IF run'[w].updated = run[w].updated + 1 THEN "updated"
       ELSE "error"

PersistedOutcome(w) ==
  LET p == CurrentFile(run[w])
  IN \* what the call keeps of the lookup says whether a record existed
     /\ LookupStep(w) /\ run'[w].pc = "extract" =>
          (run'[w].existing = NoRow <=> ~HasRecord(documents, p))
     \* the write adds a row exactly when no record existed, as at the lookup
     /\ InsertDocumentStep(w) =>
          /\ run[w].existing = NoRow <=> ~HasRecord(documents, p)
          /\ Cardinality(documents') =
               Cardinality(documents) + (IF HasRecord(documents, p) THEN 0 ELSE 1)
     \* the outcome follows the lookup, and the last step adds no row
     /\ InsertEmbeddingStep(w) /\ StatusGiven(w) # "error" =>
          /\ StatusGiven(w) = "added" <=> run[w].existing = NoRow
          /\ StatusGiven(w) = "updated" <=> run[w].existing # NoRow
          /\ documents' = documents

\* C18: a file that is persisted has outcome `added` exactly when no record
\* existed for its path when its processing started, `updated` otherwise;
\* the number of documents grows by one in the first case and stays the same
\* in the second.
C18_AddedIffNoPriorRecord ==
  [][\A w \in Workers : InFlight(w) => PersistedOutcome(w)]_vars

\* A forced call on an unchanged file has returned `updated`.
C18_Witness ==
  /\ response.op = "process_document" /\ response.status = "updated" /\ response.force
  /\ Cardinality(documents) = 2

\* C19: there is never more than one concept record per name; a store call
\* that embeds its text leaves exactly one record under the name, with the
\* new vector and the new source text, and the other records as they were;
\* a store call whose embedding fails leaves the records as they were.
C19_ConceptOverwrite ==
  /\ \A c, d \in concept_vectors : c.name = d.name => c = d
  /\ [][/\ \A c, d \in concept_vectors' : c.name = d.name => c = d
        /\ response'.op = "store_concept" =>
             concept_vectors' =
               IF response'.raised THEN concept_vectors
               ELSE {c \in concept_vectors : c.name # response'.name}
                      \cup {[name |-> response'.name,
                             embedding |-> EmbeddingOf(response'.source_text),
                             source_text |-> response'.source_text]}]_vars

\* A name that held another text was stored again, and the other concept
\* is still there.
C19_Witness ==
  /\ response.op = "store_concept" /\ ~response.raised
  /\ response.before # {} /\ response.source_text \notin response.before
  /\ Cardinality(concept_vectors) = 2

DocumentOps == {"sync_folder", "process_document", "delete_document", "remove_deleted_documents"}

\* C20: deleting a concept removes the record of that name and nothing
\* else: the other concepts, the documents, the embeddings and the full-text
\* entries stay as they were; and no step of a sync run, of a document
\* delete or of remove_deleted_documents changes a concept record.
C20_IndependentLifecycles ==
  [][/\ response'.op = "delete_concept" =>
          /\ concept_vectors' = {c \in concept_vectors : c.name # response'.deleted}
          /\ documents' = documents
          /\ embeddings' = embeddings
          /\ documents_fts' = documents_fts
     /\ concept_vectors' # concept_vectors =>
          response'.op \in {"store_concept", "delete_concept"}
     /\ (response'.op \in DocumentOps \/ run' # run) => concept_vectors' = concept_vectors]_vars

\* One of two concepts was deleted from a store that holds a document.
C20_Witness ==
  /\ response.op = "delete_concept" /\ Cardinality(concept_vectors) = 1
  /\ documents # {} /\ embeddings # <<>> /\ documents_fts # {}

\* The terms of a query: its maximal runs of non-blank characters, lower-cased
LowerCased(s) == [k \in DOMAIN s |-> IF s[k] \in {"A"} THEN "a" ELSE s[k]]

TermsOf(query) ==
  {LowerCased(SubSeq(query, i, j)) : <<i, j>> \in
     {x \in (1..Len(query)) \X (1..Len(query)) :
        /\ x[1] <= x[2]
        /\ \A k \in x[1]..x[2] : query[k] # Space
        /\ x[1] = 1 \/ query[x[1] - 1] = Space
        /\ x[2] = Len(query) \/ query[x[2] + 1] = Space}}

\* term occurs in text at the offset (counted from 0)
OccursAt(text, term, offset) ==
  /\ offset + Len(term) <= Len(text)
  /\ \A k \in 1..Len(term) : text[offset + k] = term[k]

\* The offsets of the lower-cased content at which some term occurs
MatchOffsets(content, query) ==
  {o \in 0..Len(content) :
     \E t \in TermsOf(query) : OccursAt(LowerCased(content), t, o)}

\* The window around a match of `width` characters at `offset`, with its markers
WindowAt(content, offset, width) ==
  LET from == IF offset - ContextChars < 0 THEN 0 ELSE offset - ContextChars
      to == IF offset + ContextChars + width > Len(content) THEN Len(content)
            ELSE offset + ContextChars + width
  IN (IF from > 0 THEN <<Ellipsis>> ELSE <<>>)
       \o [k \in 1..(to - from) |-> content[from + k]]
       \o (IF to < Len(content) THEN <<Ellipsis>> ELSE <<>>)

IsSnippet == response.op = "extract_snippet"

\* C21, as stated: with no term in the content the snippet is the prefix of the
\* content (marked when the content is longer); otherwise it is the window
\* around the earliest offset at which a term occurs, ContextChars before it
\* and ContextChars plus the length of a term matched there after it, clipped
\* to the content and marked at each end that is not an end of the content.
C21_SnippetWindow ==
  IsSnippet =>
    LET content == response.content
        offsets == MatchOffsets(content, response.query)
    IN IF offsets = {}
       THEN response.snippet =
              IF Len(content) > PrefixChars
              THEN [k \in 1..PrefixChars |-> content[k]] \o <<Ellipsis>>
              ELSE content
       ELSE LET first == CHOOSE o \in offsets : \A other \in offsets : o <= other
            IN \E t \in TermsOf(response.query) :
                 /\ OccursAt(LowerCased(content), t, first)
                 /\ response.snippet = WindowAt(content, first, Len(t))

\* C21: a query of several terms, one of which occurs in a content long enough
\* for the window to be clipped by neither the claimed nor the computed end
C21_Witness ==
  /\ IsSnippet
  /\ \E k \in DOMAIN response.query : response.query[k] = Space
  /\ MatchOffsets(response.content, response.query) # {}
  /\ Head(response.snippet) = Ellipsis

\* The integer length of a vector and the vector scaled by it
LengthOf(v) == CHOOSE r \in 0..(2 * MaxCoord + 2) :
                 r * r <= v[1] * v[1] + v[2] * v[2] /\ v[1] * v[1] + v[2] * v[2] < (r + 1) * (r + 1)

UnitOf(v) == IF v = <<0, 0>> THEN v ELSE <<v[1] \div LengthOf(v), v[2] \div LengthOf(v)>>

\* C22: normalize gives the zero vector back as it is, and debias_vector with
\* a bias of no length gives normalize(main).
C22_ZeroVectorGuards ==
  /\ response.op = "normalize" /\ response.v = <<0, 0>> => response.result = <<0, 0>>
  /\ response.op = "debias_vector" /\ LengthOf(response.bias) = 0
       => response.result = UnitOf(response.main)

\* C22: debias_vector has been called with a main vector that has a length and
\* a bias that has none
C22_Witness ==
  /\ response.op = "debias_vector"
  /\ response.bias = <<0, 0>>
  /\ response.main = <<0, 0 - 2>>
  /\ response.result = <<0, 0 - 1>>

\* A step in which process_document returns `error` from its lines 90-98: the
\* text is empty, cannot be read, or generate_embedding raised
ErrorReturnStep(w) ==
  /\ run[w].pc = "extract"
  /\ run'[w].pc \notin {"extract", "insemb"}
  /\ OutcomeOf(w) = "error"

\* a call is between its lookup and the result of its extraction
Extracting(w) == run[w].pc = "extract"

\* C23: a call of process_document that ends in error because nothing was
\* extracted or the embedding call failed writes nothing: neither its lookup
\* step nor its error return changes a document, an embedding or a full-text
\* entry, and nothing else changes them in between, so the record stored for
\* the path (or its absence) is the one found when the call began.
C23_ErrorLeavesStore ==
  [][\A w \in Workers :
       LookupStep(w) \/ (Extracting(w) /\ run'[w].pc # "insemb")
         => /\ documents' = documents
            /\ embeddings' = embeddings
            /\ documents_fts' = documents_fts
            /\ ErrorReturnStep(w) =>
                 get_document_by_path(documents', CurrentFile(run[w]))
                   = get_document_by_path(documents, CurrentFile(run[w]))]_vars

\* C23: the embedding call failed for a file whose stored record holds another
\* content: the error is returned and the old record is still the stored one.
C23_Witness ==
  /\ response.op = "process_document" /\ response.status = "error"
  /\ response.calls = 1
  /\ \E d \in documents :
       /\ d.filepath = response.filepath
       /\ disk[d.filepath].exists
       /\ d.file_hash # compute_file_hash(disk[d.filepath].bytes)
       /\ get_embedding(embeddings, d.id) = {EmbeddingOf(d.content)}

\* The paths in strictly ascending order: none of them twice
Ascending(docs) == \A i, j \in DOMAIN docs : i < j => docs[i] < docs[j]

\* A run starts: sync_folder has listed the folder
RunStarts(w) == run[w].pc = "idle" /\ run'[w].pc # "idle" /\ run'[w].kind = "sync"

\* The list a run works through holds the files of the folder, each once, in
\* ascending order: it is a function of the folder's content alone.
Discovered(w) ==
  /\ Ascending(run'[w].docs)
  /\ Range(run'[w].docs) = {p \in Paths : disk[p].exists}

\* Between its start and its return a run works on documents[processed]: the
\* index goes up one file at a time, a file is looked up once, its text is
\* extracted after its lookup only, and the provider is called at most once,
\* when the extraction of the file is left.
OneFileAtATime(w) ==
  /\ run'[w].docs = run[w].docs
  /\ run'[w].processed \in {run[w].processed, run[w].processed + 1}
  /\ run'[w].processed <= Len(run[w].docs)
  /\ run'[w].pc = "lookup" /\ run'[w].processed = run[w].processed => run[w].pc = "lookup"
  /\ run'[w].pc = "extract" /\ run[w].pc # "extract"
       => run[w].pc = "lookup" /\ run'[w].processed = run[w].processed
  /\ run'[w].pc = "insemb" /\ run[w].pc # "insemb"
       => run[w].pc = "extract" /\ run'[w].processed = run[w].processed
  /\ run'[w].pc = "status" => run'[w].processed = Len(run[w].docs)
  /\ run'[w].calls # run[w].calls
       => /\ run'[w].calls = run[w].calls + 1
          /\ run[w].pc = "extract" /\ run'[w].pc # "extract"

\* The files the summary's run visited, in the order it finished them
Visited(summary) == [k \in DOMAIN summary.progress |-> summary.progress[k][3]]

\* C24: a run lists the files in ascending path order, each once; it works
\* through the list one file at a time, calling the provider at most once for
\* a file; it ends, and its summary tells of every listed file visited once,
\* in the order of the list.
C24_RunVisitsInOrderAndEnds ==
  /\ [][\A w \in Workers :
          /\ RunStarts(w) => Discovered(w)
          /\ InFlight(w) /\ run'[w].pc # "idle" => OneFileAtATime(w)
          /\ InFlight(w) /\ run'[w].pc = "idle"
               => /\ run[w].pc = "status"
                  /\ response'.op = "sync_folder"
                  /\ response'.docs = run[w].docs]_vars
  /\ [](IsSummary =>
          /\ Visited(response) = response.docs
          /\ Ascending(response.docs)
          /\ response.processed = response.total
          /\ response.calls <= response.total)
  /\ \A w \in Workers : InFlight(w) ~> IsSummary

\* C24: a run over two files has returned, having called the provider for
\* one of them and found the other in error
C24_Witness ==
  /\ IsSummary
  /\ response.docs = <<1, 2>>
  /\ response.calls = 1
  /\ Len(response.errors) = 1

\* A run is between the two writes of an update: db.insert_document has
\* committed the new content of a document that was stored before, and
\* db.insert_embedding has not run yet
InWindow(w) == run[w].pc = "insemb" /\ run[w].existing # NoRow

\* The stored embeddings of the document that are not the embedding of its
\* stored content: with one of them the document is in a mixed state, the
\* content of one version together with the embedding of the other
StaleEmbeddings(d) == {e \in get_embedding(embeddings, d.id) : e # EmbeddingOf(d.content)}

DocumentsOf(p) == {d \in documents : d.filepath = p}

FtsRowsOf(doc_id) == {f \in documents_fts : f.document_id = doc_id}

\* Every run has returned, the last of them just now
AllRunsOver == Quiescent /\ IsSummary

\* C26, as stated: when overlapping runs have all returned, a file has one
\* document at most (and one when the run that returned last had no error),
\* every document has exactly one embedding and exactly one full-text entry
\* under its id, and no embedding or full-text entry is kept under an id
\* that is not a stored document's.
C26_ConcurrentRunsKeepInvariants ==
  AllRunsOver =>
    /\ \A p \in Paths : Cardinality(DocumentsOf(p)) <= 1
    /\ response.errors = <<>> => \A p \in Range(response.docs) : DocumentsOf(p) # {}
    /\ \A d \in documents :
         /\ Cardinality(EmbeddingRowsOf(d.id)) = 1
         /\ Cardinality(FtsRowsOf(d.id)) = 1
    /\ EmbIds(embeddings) \subseteq DocIds(documents)
    /\ FtsIds(documents_fts) \subseteq DocIds(documents)

\* C26: two runs over the same file overlapped and both have returned; the
\* one that returned last wrote the file's document
C26_Witness ==
  /\ AllRunsOver
  /\ response.after = "disturbed"
  /\ response.added = 1
  /\ documents # {}

\* The step in which a query fetches the details of its ranked documents and
\* returns
FetchStep == qry.pc = "fetch" /\ qry'.pc = "idle"

\* the ranked ids that are stored documents at the fetch, in ranking order
RECURSIVE StoredOf(_, _)
StoredOf(ranked, ids) ==
  IF ranked = <<>> THEN <<>>
  ELSE (IF ranked[1].document_id \in ids THEN <<ranked[1].document_id>> ELSE <<>>)
         \o StoredOf(SubSeq(ranked, 2, Len(ranked)), ids)

\* C27: whatever was deleted between the reading of the candidates and the
\* fetch, the query returns a reply and raises nothing; its entries are the
\* ranked documents that are stored at the fetch, in ranking order, so a
\* deleted document is absent; `returned` is the number of entries and is at
\* most `limit`.
C27_DeletedDocumentsAreAbsent ==
  [][FetchStep =>
       /\ response'.op = qry.mode
       /\ response'.raised = FALSE
       /\ \A k \in DOMAIN response'.results :
            \E d \in documents :
              d.id = response'.results[k].id /\ d.filepath = response'.results[k].filepath
       /\ [k \in DOMAIN response'.results |-> response'.results[k].id]
            = StoredOf(qry.top_results, DocIds(documents))
       /\ response'.returned = Len(response'.results)
       /\ response'.returned <= qry.limit]_vars

\* C27: a semantic query ranked two documents, one of them was deleted before
\* the fetch, and the reply holds the other alone
C27_Witness ==
  /\ IsAnswer("semantic")
  /\ response.limit = 2
  /\ Len(response.hist.scanned) = 2
  /\ response.returned = 1
  /\ Cardinality(DocIds(documents)) = 1

TaskIds == 1..MaxTasks

Started(t) == t <= Len(sync_tasks)

IsCompleted(t) == Started(t) /\ sync_tasks[t].status = "completed"

\* every task that is started reaches status `completed`
TasksComplete == \A t \in TaskIds : Started(t) ~> IsCompleted(t)

\* a task that is completed stays so, and `processed` never decreases
TasksOnlyAdvance ==
  [][\A t \in DOMAIN sync_tasks :
       /\ sync_tasks[t].status = "completed" => sync_tasks'[t].status = "completed"
       /\ sync_tasks'[t].processed >= sync_tasks[t].processed]_vars

\* `processed` never exceeds `total`
ProcessedWithinTotal ==
  \A t \in DOMAIN sync_tasks : sync_tasks[t].processed <= sync_tasks[t].total

\* the record of a completed task adds up
CompletedAddsUp ==
  \A t \in DOMAIN sync_tasks :
    sync_tasks[t].status = "completed" =>
      /\ sync_tasks[t].processed = sync_tasks[t].total
      /\ sync_tasks[t].added + sync_tasks[t].updated + sync_tasks[t].unchanged
           + Len(sync_tasks[t].errors) = sync_tasks[t].total

\* C28, as stated: every task that is started reaches status `completed` and
\* stays there, also when the run fails outside the processing of a file;
\* `processed` never decreases and never exceeds `total`; a completed task has
\* processed = total and added + updated + unchanged + errors = total.
C28_TasksCompleteAndAddUp ==
  /\ TasksComplete
  /\ TasksOnlyAdvance
  /\ []ProcessedWithinTotal
  /\ []CompletedAddsUp

\* C28: a task over two files is completed, its record adding up
C28_Witness ==
  \E t \in DOMAIN sync_tasks :
    /\ sync_tasks[t].status = "completed"
    /\ sync_tasks[t].total = 2
    /\ sync_tasks[t].processed = 2
    /\ sync_tasks[t].added + sync_tasks[t].updated + sync_tasks[t].unchanged
         + Len(sync_tasks[t].errors) = 2

=============================================================================
